---- MODULE Spec2Model ----
(***************************************************************************)
(* Tab Groups Manager (harvmaster/tab-grouper): the background service's   *)
(* TabGroupManager, its message listener and the popup commands that       *)
(* reach it.  Strings the code inspects character by character (domains,   *)
(* templates, regular-expression sources, group names) are sequences of    *)
(* one-character strings; the five characters ":name" of a template are    *)
(* one token.  The empty string "" is the empty sequence << >>.            *)
(***************************************************************************)
EXTENDS Naturals, Integers, Sequences, FiniteSets, TLC, Bags

\* ------------------------------------------------------------------ bounds
MaxTplLen == 5
MaxDomLen == 4
MaxEvents == 2
MaxCommands == 2
MaxTasks == 2
MaxSteps == 3
MaxLogCalls == 103

\* ------------------------------------------------------- strings and regex
Letters == {"a", "b"}
DomChars == Letters \cup {"."}
TplTokens == {"a", ".", "*", ":name"}

EmptyStr == << >>

SeqsUpTo(S, n) == UNION {[1..k -> S] : k \in 0..n}

Range(s) == {s[i] : i \in 1..Len(s)}

Max(S) == CHOOSE x \in S : \A y \in S : y <= x
Min(S) == CHOOSE x \in S : \A y \in S : x <= y

\* String.prototype.replace(/x/g, y) for a one-token x
ReplaceAll(s, from, to) == [i \in 1..Len(s) |-> IF s[i] = from THEN to ELSE s[i]]

\* String.prototype.indexOf / includes for a one-token needle
Includes(s, tok) == \E i \in 1..Len(s) : s[i] = tok

\* toUpperCase on one character
ToUpperCase(c) == CASE c = "a" -> "A" [] c = "b" -> "B" [] OTHER -> c

\* Atoms of a regular-expression source the model interprets:
\*   "^" "$"      anchors
\*   "\\."        an escaped (literal) dot
\*   "."          any character
\*   "[^.]+"      one or more non-dot characters (greedy)
\*   "([^.]+)"    the same, capturing
\*   "(?:)"       the empty group
\*   any other    a literal character
IsPlusAtom(a) == a \in {"[^.]+", "([^.]+)"}

\* length of the run of non-dot characters of s that starts at j
RECURSIVE NonDotRun(_, _)
NonDotRun(s, j) == IF j > Len(s) \/ s[j] = "." THEN 0 ELSE 1 + NonDotRun(s, j + 1)

NoMatchResult == [ok |-> FALSE, caps |-> << >>]

\* The backtracking matcher of RegExp: atom i of re against s from position j;
\* caps are the capturing groups filled so far (match[1] is caps[1]).
RECURSIVE MatchHere(_, _, _, _, _)
MatchHere(re, i, s, j, caps) ==
  IF i > Len(re) THEN [ok |-> TRUE, caps |-> caps]
  ELSE LET a == re[i] IN
    CASE a = "^" -> IF j = 1 THEN MatchHere(re, i + 1, s, j, caps) ELSE NoMatchResult
      [] a = "$" -> IF j = Len(s) + 1 THEN MatchHere(re, i + 1, s, j, caps) ELSE NoMatchResult
      [] a = "\\." -> IF j <= Len(s) /\ s[j] = "." THEN MatchHere(re, i + 1, s, j + 1, caps)
                      ELSE NoMatchResult
      [] a = "." -> IF j <= Len(s) THEN MatchHere(re, i + 1, s, j + 1, caps) ELSE NoMatchResult
      [] a = "(?:)" -> MatchHere(re, i + 1, s, j, caps)
      [] IsPlusAtom(a) ->
           LET Caps(k) == IF a = "([^.]+)" THEN Append(caps, SubSeq(s, j, j + k - 1)) ELSE caps
               ks == {k \in 1..NonDotRun(s, j) : MatchHere(re, i + 1, s, j + k, Caps(k)).ok}
           IN IF ks = {} THEN NoMatchResult
              ELSE MatchHere(re, i + 1, s, j + Max(ks), Caps(Max(ks)))
      [] OTHER -> IF j <= Len(s) /\ s[j] = a THEN MatchHere(re, i + 1, s, j + 1, caps)
                  ELSE NoMatchResult

\* new RegExp(source): the compiled object keeps its source; the source of an
\* empty pattern reads back as "(?:)"
NewRegExp(source) == [source |-> IF source = << >> THEN <<"(?:)">> ELSE source]
\* new RegExp(source) throws a SyntaxError: an unterminated group
RegExpThrows(source) == Includes(source, "(")

\* RegExp.prototype.exec / String.prototype.match: leftmost start position wins
RegExpExec(re, s) ==
  LET starts == {j \in 1..(Len(s) + 1) : MatchHere(re.source, 1, s, j, << >>).ok}
  IN IF starts = {} THEN NoMatchResult ELSE MatchHere(re.source, 1, s, Min(starts), << >>)

\* RegExp.prototype.test
RegExpTest(re, s) == RegExpExec(re, s).ok

\* ------------------------------------------------------- TemplateCompiler
\* createAutoPattern throws when indexOf(':name') is -1
createAutoPatternThrows(template) == ~Includes(template, ":name")

createAutoPatternMutUnanchored(template) ==
  [template |-> template,
   regex |-> NewRegExp(ReplaceAll(ReplaceAll(ReplaceAll(template, ".", "\\."), "*", "[^.]+"),
                                  ":name", "([^.]+)")),
   namePosition |-> 1]

createAutoPattern(template) ==
  LET regexStr == ReplaceAll(ReplaceAll(ReplaceAll(template, ".", "\\."), "*", "[^.]+"),
                             ":name", "([^.]+)")
  IN [template |-> template,
      regex |-> NewRegExp(<<"^">> \o regexStr \o <<"$">>),
      namePosition |-> 1]

CapitalizeMutAll(name) == [i \in 1..Len(name) |-> ToUpperCase(name[i])]

\* name.charAt(0).toUpperCase() + name.slice(1)
Capitalize(name) ==
  IF name = << >> THEN << >> ELSE <<ToUpperCase(name[1])>> \o SubSeq(name, 2, Len(name))

\* A read of the last capturing group instead of the one at namePosition
CaptureOfMutLast(pattern, domain) ==
  LET m == RegExpExec(pattern.regex, domain)
  IN IF m.ok /\ Len(m.caps) > 0 THEN m.caps[Len(m.caps)] ELSE << >>

\* match && match[pattern.namePosition]: the capture exists and is not empty
CaptureOf(pattern, domain) ==
  LET m == RegExpExec(pattern.regex, domain)
  IN IF m.ok /\ pattern.namePosition <= Len(m.caps) THEN m.caps[pattern.namePosition]
     ELSE << >>

RECURSIVE matchAutoPatternIn(_, _)
matchAutoPatternIn(patterns, domain) ==
  IF patterns = << >> THEN << >>
  ELSE IF CaptureOf(Head(patterns), domain) # << >>
       THEN Capitalize(CaptureOf(Head(patterns), domain))
       ELSE matchAutoPatternIn(Tail(patterns), domain)

\* --------------------------------------------------------------- universe
TAB_GROUP_ID_NONE == -1

Tabs == {1, 2}

\* A URL is what the code reads of it: its scheme prefix and, through
\* new URL(url).hostname, its host; the path only tells URLs of one host apart.
DomAB == <<"a", "b", ".", "a">>
DomBA == <<"b", ".", "a", "b">>
Url(scheme, host, path) == [scheme |-> scheme, host |-> host, path |-> path]
Urls == {Url("https", DomAB, "x"), Url("https", DomAB, "y"), Url("https", DomBA, "x")}

\* new URL(url) throws for a string that is no URL
UrlParses(url) == url.scheme \in {"https", "chrome", "brave"}
Hostname(url) == url.host
\* url.startsWith('chrome://') || url.startsWith('brave://')
IsInternalUrl(url) == url.scheme \in {"chrome", "brave"}

Undefined == "undefined"
Colors == {"blue", "red"}

\* The add-pattern form of the popup: pattern source, group name, color
ManualChoices ==
  { [patternStr |-> <<"a", "b", "\\.">>, groupName |-> <<"G">>, color |-> "blue"],
    [patternStr |-> <<"b">>,             groupName |-> <<"H">>, color |-> "red"] }

\* An 'addPattern' message whose pattern does not compile: the popup compiles
\* the pattern itself before it sends (line 1479), so this one comes from
\* another sender
InvalidManual == [patternStr |-> <<"(">>, groupName |-> <<"G">>, color |-> "blue"]

DefaultTemplate == <<":name", ".", "*">>
\* The templates the popup's auto-pattern form is given (one has no :name, one
\* has two)
TemplateChoices ==
  { <<"*", ".", ":name">>, <<":name", ".", "a">>, <<"*", ".", "b">>,
    <<":name", ".", ":name">> }

NoPattern == [pattern |-> NewRegExp(<< >>), groupName |-> << >>, color |-> Undefined]

\* ------------------------------------------------------------------ state
VARIABLES
  domainPatterns,      \* TabGroupManager.domainPatterns: <<[pattern, groupName, color]>>
  enableAutoPatterns,  \* TabGroupManager.enableAutoPatterns
  autoPatterns,        \* TabGroupManager.autoPatterns: <<[template, regex, namePosition]>>
  autoPatternCache,    \* domain -> group name
  processedUrls,       \* url -> group name, "" for no match
  storage,             \* chrome.storage.local
  tabs,                \* the browser's tabs: id -> [open, url, groupId]
  activeTab,           \* the id of the active tab
  groups,              \* the window's tab groups: id -> [title, color]
  tasks,               \* suspended async functions, pending callbacks and timers
  ev,                  \* what the last step did: handler outcomes and the response
  prov,                \* history: for each processedUrls entry, where it came from
  nEv, nCmd,           \* tab events and popup commands so far
  mTpl, mDom, mOut,    \* the template compiler on its own (SpecMatch)
  logs, nLog,          \* LogManager.logs on its own (SpecLog), and the calls of log so far
  patterns,            \* PopupManager.patterns: <<[patternStr, groupName, color]>>
  outbox,              \* the 'addPattern' messages sent by a popup, not yet handled
  awaiting,            \* the 'addPattern' promises the open popup page has pending
  loading              \* the popup's chrome.storage.local.get of loadPatterns is pending

vars == <<domainPatterns, enableAutoPatterns, autoPatterns, autoPatternCache,
          processedUrls, storage, tabs, activeTab, groups, tasks, ev, prov,
          nEv, nCmd, mTpl, mDom, mOut, logs, nLog, patterns, outbox, awaiting, loading>>

engineVars == <<domainPatterns, enableAutoPatterns, autoPatterns, autoPatternCache,
                processedUrls, storage, tabs, activeTab, groups, tasks, ev, prov,
                nEv, nCmd, patterns, outbox, awaiting, loading>>
matchVars == <<mTpl, mDom, mOut>>
logVars == <<logs, nLog>>
popupVars == <<patterns, outbox, awaiting, loading>>

\* The outcome of compileAndMatch, before it has run
NoOut == [done |-> FALSE, threw |-> FALSE, ok |-> FALSE, name |-> << >>]

\* Map (a function with a finite domain) helpers
EmptyMap == << >>
MapHas(m, k) == k \in DOMAIN m
MapSet(m, k, v) == [x \in (DOMAIN m) \cup {k} |-> IF x = k THEN v ELSE m[x]]

\* A key of chrome.storage.local: unset, or holding a value
Absent == [has |-> FALSE, val |-> << >>]
AbsentFlag == [has |-> FALSE, val |-> FALSE]
Stored(v) == [has |-> TRUE, val |-> v]

\* The state-bound matcher: TabGroupManager.matchAutoPattern
matchAutoPattern(domain) == matchAutoPatternIn(autoPatterns, domain)

FirstManualInMutNone(dps, domain) == 0
FirstManualInMutLast(dps, domain) ==
  LET hits == {i \in 1..Len(dps) : RegExpTest(dps[i].pattern, domain)}
  IN IF hits = {} THEN 0 ELSE Max(hits)

\* domainPatterns.find(p => p.pattern.test(domain)): index of the first match, 0 if none
FirstManualIn(dps, domain) ==
  LET hits == {i \in 1..Len(dps) : RegExpTest(dps[i].pattern, domain)}
  IN IF hits = {} THEN 0 ELSE Min(hits)
FirstManual(domain) == FirstManualIn(domainPatterns, domain)

\* A suspended async function, pending callback or timer; the onActivated
\* listener suspended on chrome.tabs.get has pc "tabsGet" (line 279), an
\* addTabToGroup has pc "window", "query", "group" or "update" after the call
\* it awaits (lines 713-741), applyAutoPatternsToTabs has pc "timeout0" until
\* its 0 ms timer fires and "tabsQuery" after it (lines 601-603). then: where a
\* handleTabUpdate suspended on addTabToGroup goes on, "return" after the cache
\* hit (line 330), "setCache" after a manual match (line 343), "returnAuto"
\* after an auto-pattern match (line 359)
Task(kind, pc) ==
  [kind |-> kind, pc |-> pc, tab |-> 0, url |-> Url("https", DomAB, "x"), name |-> << >>,
   color |-> Undefined, gid |-> 0, then |-> "return", pre |-> FALSE, cfg |-> FALSE,
   pat |-> NoPattern, rest |-> << >>, count |-> 0, msg |-> 0]

\* One handler run (handleTabUpdate, or one iteration of a pass) as the step saw it
Outcome(by, tab, path, req, name, color, pv) ==
  [by |-> by, tab |-> tab.id, url |-> tab.url, groupId |-> tab.groupId, path |-> path,
   req |-> req, name |-> name, color |-> color, prov |-> pv]

NoProv == [src |-> "none", pat |-> NoPattern, tab |-> 0, color |-> Undefined,
           stale |-> FALSE, pre |-> FALSE]
Prov(src, pat, tab, color, stale, pre) ==
  [src |-> src, pat |-> pat, tab |-> tab, color |-> color, stale |-> stale, pre |-> pre]

Snapshot(t) == [id |-> t, url |-> tabs[t].url, groupId |-> tabs[t].groupId]

\* ------------------------------------------------- the caches, as one value
\* The two caches and the history of processedUrls, threaded through the
\* handler runs of one step (a run sees what the run before it wrote).
Caches == [pu |-> processedUrls, apc |-> autoPatternCache, prov |-> prov]

ProvOf(c, url) == IF MapHas(c.prov, url) THEN c.prov[url] ELSE NoProv

\* The result of the synchronous part of a handler: the caches after it, the
\* outcomes of the runs it made, the async work it left pending, its response.
\* to: the message answered, for a response sent after the listener returned
NoResp == [sent |-> FALSE, success |-> FALSE, count |-> 0, to |-> 0, lastError |-> FALSE]
Resp(success, count) ==
  [sent |-> TRUE, success |-> success, count |-> count, to |-> 0, lastError |-> FALSE]
Result(c, outs, spawn, resp) == [c |-> c, outs |-> outs, spawn |-> spawn, resp |-> resp]

\* The pending work is a bag: two calls that agree in every field are two.
\* Without: the calls of S have gone on; ImageBag: every pending call k replaced
\* by f[k]
Without(ts, S) == ts (-) SetToBag(S)
RECURSIVE SumCounts(_, _)
SumCounts(ts, S) ==
  IF S = {} THEN 0
  ELSE LET k == CHOOSE x \in S : TRUE IN ts[k] + SumCounts(ts, S \ {k})
ImageBag(ts, f) ==
  LET src == BagToSet(ts)
  IN IF src = {} THEN EmptyBag
     ELSE [x \in {f[k] : k \in src} |-> SumCounts(ts, {k \in src : f[k] = x})]

\* A call of addTabToGroup(tab.id, name, color): the caller is suspended on it
AtgCall(kind, tab, name, color) ==
  [Task(kind, "window") EXCEPT !.tab = tab.id, !.url = tab.url, !.name = name,
                              !.color = color]

\* ---------------------------------------------------------- handleTabUpdate
\* The URL-cache hit of handleTabUpdate (lines 325-335)
htuCacheHitMutNoRequest(tab, c) ==
  Result(c, <<Outcome("handleTabUpdate", tab, "hit", FALSE, c.pu[tab.url], Undefined,
                      ProvOf(c, tab.url))>>, {}, NoResp)

htuCacheHitMutAlways(tab, c) ==
  Result(c, <<Outcome("handleTabUpdate", tab, "hit", TRUE, c.pu[tab.url], Undefined,
                      ProvOf(c, tab.url))>>,
         {AtgCall("htu", tab, c.pu[tab.url], Undefined)}, NoResp)

htuCacheHit(tab, c) ==
  LET cachedGroupName == c.pu[tab.url]
  IN IF cachedGroupName # << >>
     THEN Result(c, <<Outcome("handleTabUpdate", tab, "hit", TRUE, cachedGroupName,
                              Undefined, ProvOf(c, tab.url))>>,
                 {AtgCall("htu", tab, cachedGroupName, Undefined)}, NoResp)
     ELSE Result(c, <<Outcome("handleTabUpdate", tab, "hit", FALSE, << >>, Undefined,
                              ProvOf(c, tab.url))>>, {}, NoResp)

\* A classification that requests a group whatever it finds
htuClassifyMutRequestAlways(tab, c) ==
  Result([c EXCEPT !.pu = MapSet(c.pu, tab.url, << >>),
                   !.prov = MapSet(c.prov, tab.url,
                                   Prov("nomatch", NoPattern, tab.id, Undefined, FALSE, FALSE))],
         <<Outcome("handleTabUpdate", tab, "nomatch", TRUE, << >>, Undefined, NoProv)>>,
         {AtgCall("htu", tab, << >>, Undefined)}, NoResp)

\* The classification of handleTabUpdate on a URL-cache miss (lines 337-366)
htuClassify(tab, c) ==
  LET domain == Hostname(tab.url)
      mi == FirstManual(domain)
      groupName == matchAutoPattern(domain)
  IN IF mi # 0
     THEN \* the URL cache is written after the await (line 345)
          Result(c, <<Outcome("handleTabUpdate", tab, "manual", TRUE,
                              domainPatterns[mi].groupName, domainPatterns[mi].color, NoProv)>>,
                 {[AtgCall("htu", tab, domainPatterns[mi].groupName, domainPatterns[mi].color)
                     EXCEPT !.then = "setCache", !.pat = domainPatterns[mi]]}, NoResp)
     ELSE IF enableAutoPatterns /\ groupName # << >>
     THEN Result([pu |-> MapSet(c.pu, tab.url, groupName),
                  apc |-> MapSet(c.apc, domain, groupName),
                  prov |-> MapSet(c.prov, tab.url,
                                  Prov("auto", NoPattern, tab.id, Undefined, FALSE, FALSE))],
                 <<Outcome("handleTabUpdate", tab, "auto", TRUE, groupName, Undefined, NoProv)>>,
                 {[AtgCall("htu", tab, groupName, Undefined) EXCEPT !.then = "returnAuto"]},
                 NoResp)
     ELSE Result([c EXCEPT !.pu = MapSet(c.pu, tab.url, << >>),
                           !.prov = MapSet(c.prov, tab.url,
                                           Prov("nomatch", NoPattern,
                                                tab.id, Undefined, FALSE, FALSE))],
                 <<Outcome("handleTabUpdate", tab, "nomatch", FALSE, << >>, Undefined, NoProv)>>,
                 {}, NoResp)

\* handleTabUpdate up to its first await (lines 304-370)
handleTabUpdate(tab, c) ==
  LET Skip(path) == Result(c, <<Outcome("handleTabUpdate", tab, path, FALSE, << >>,
                                        Undefined, NoProv)>>, {}, NoResp)
  IN IF tab.groupId # TAB_GROUP_ID_NONE THEN Skip("grouped")
     ELSE IF tab.id = 0 THEN Skip("nourl")
     ELSE IF IsInternalUrl(tab.url) THEN Skip("internal")
     ELSE IF MapHas(c.pu, tab.url) THEN htuCacheHit(tab, c)
     ELSE IF ~UrlParses(tab.url) THEN Skip("error")
     ELSE htuClassify(tab, c)

\* for (const tab of tabs) this.handleTabUpdate(tab): every call runs to its
\* first await before the next starts (lines 506-508)
RECURSIVE handleTabUpdateAll(_, _, _, _)
handleTabUpdateAll(snap, c, outs, spawn) ==
  IF snap = << >> THEN Result(c, outs, spawn, NoResp)
  ELSE LET r == handleTabUpdate(Head(snap), c)
       IN handleTabUpdateAll(Tail(snap), r.c, outs \o r.outs, spawn \cup r.spawn)

\* ------------------------------------------------------------------ passes
\* chrome.tabs.query({}): every open tab as it is now
RECURSIVE SnapshotOf(_)
SnapshotOf(ids) ==
  IF ids = {} THEN << >>
  ELSE LET t == Min(ids) IN <<Snapshot(t)>> \o SnapshotOf(ids \ {t})
QueryTabs == SnapshotOf({t \in Tabs : tabs[t].open})

\* The filter of groupAllExistingTabs (lines 641-646); includes('chrome://') is
\* startsWith for the URLs of the model, whose scheme is their prefix
IsUngroupedCandidate(tab) ==
  tab.groupId = TAB_GROUP_ID_NONE /\ ~IsInternalUrl(tab.url)

\* The loop of groupAllExistingTabs from the tab at the head of rest up to the
\* next await of addTabToGroup, or to its end (lines 653-697)
RECURSIVE groupAllLoop(_, _, _, _)
groupAllLoop(rest, c, outs, count) ==
  IF rest = << >> THEN Result(c, outs, {}, Resp(TRUE, count))
  ELSE
    LET tab == Head(rest)
        domain == Hostname(tab.url)
        mi == FirstManual(domain)
        groupName == matchAutoPattern(domain)
        Out(path, req, name, color) ==
          outs \o <<Outcome("groupAllExistingTabs", tab, path, req, name, color, NoProv)>>
        Await(name, color) ==
          {[AtgCall("groupAll", tab, name, color) EXCEPT !.rest = Tail(rest), !.count = count]}
    IN IF tab.id = 0 THEN groupAllLoop(Tail(rest), c, Out("nourl", FALSE, << >>, Undefined), count)
       ELSE IF ~UrlParses(tab.url)
       THEN groupAllLoop(Tail(rest), c, Out("error", FALSE, << >>, Undefined), count)
       ELSE IF domain = << >>
       THEN groupAllLoop(Tail(rest), c, Out("nourl", FALSE, << >>, Undefined), count)
       ELSE IF mi # 0
       THEN Result(c, Out("manual", TRUE, domainPatterns[mi].groupName, domainPatterns[mi].color),
                   Await(domainPatterns[mi].groupName, domainPatterns[mi].color), NoResp)
       ELSE IF enableAutoPatterns /\ MapHas(c.apc, domain) /\ c.apc[domain] # << >>
       THEN Result(c, Out("dcache", TRUE, c.apc[domain], Undefined),
                   Await(c.apc[domain], Undefined), NoResp)
       ELSE IF enableAutoPatterns /\ groupName # << >>
       THEN Result([c EXCEPT !.apc = MapSet(c.apc, domain, groupName)],
                   Out("auto", TRUE, groupName, Undefined), Await(groupName, Undefined), NoResp)
       ELSE groupAllLoop(Tail(rest), c, Out("nomatch", FALSE, << >>, Undefined), count)

\* The loop shared by applyAutoPatternToExistingTabs (lines 522-538) and
\* applyAutoPatternsToTabs (lines 606-622), up to the next await or to its end.
\* new URL() throwing ends the pass: the rejection is unhandled in the first and
\* caught around the whole loop in the second.
RECURSIVE applyAutoLoop(_, _, _, _)
applyAutoLoop(kind, rest, c, outs) ==
  IF rest = << >> THEN Result(c, outs, {}, NoResp)
  ELSE
    LET tab == Head(rest)
        domain == Hostname(tab.url)
        groupName == matchAutoPattern(domain)
        by == IF kind = "applyAuto" THEN "applyAutoPatternToExistingTabs"
              ELSE "applyAutoPatternsToTabs"
        Out(path, req, name) ==
          outs \o <<Outcome(by, tab, path, req, name, Undefined, NoProv)>>
    IN IF tab.id = 0 THEN applyAutoLoop(kind, Tail(rest), c, Out("nourl", FALSE, << >>))
       ELSE IF ~UrlParses(tab.url) THEN Result(c, Out("error", FALSE, << >>), {}, NoResp)
       ELSE IF FirstManual(domain) # 0
       THEN applyAutoLoop(kind, Tail(rest), c, Out("manualSkip", FALSE, << >>))
       ELSE IF groupName # << >>
       THEN Result([c EXCEPT !.apc = MapSet(c.apc, domain, groupName)],
                   Out("auto", TRUE, groupName),
                   {[AtgCall(kind, tab, groupName, Undefined) EXCEPT !.rest = Tail(rest)]},
                   NoResp)
       ELSE applyAutoLoop(kind, Tail(rest), c, Out("nomatch", FALSE, << >>))

\* A handleTabUpdate that caches nothing after its await
htuResumeMutNoCache(k, c) == Result(c, << >>, {}, NoResp)

\* What runs when the awaited addTabToGroup of task k has returned.
\* handleTabUpdate after its await: the manual path caches its result (line 345)
htuResume(k, c) ==
  Result(IF k.then = "setCache"
         THEN [c EXCEPT !.pu = MapSet(c.pu, k.url, k.name),
                        !.prov = MapSet(c.prov, k.url,
                                        Prov("manual", k.pat, k.tab, k.color, k.cfg, k.pre))]
         ELSE c,
         << >>, {}, NoResp)

\* The sendResponse that the listener's promise handlers close over (lines
\* 934-958): the pass of one 'groupExistingTabs' message goes on, and in the
\* end its .then answers for that message, unless chrome.runtime.lastError is
\* set when it runs (lines 938-941): then it logs and sends nothing
ForMessage(r, msg, lastError) ==
  [r EXCEPT !.spawn = {[k EXCEPT !.msg = msg] : k \in r.spawn},
            !.resp = IF ~r.resp.sent THEN r.resp
                     ELSE IF lastError THEN [NoResp EXCEPT !.to = msg, !.lastError = TRUE]
                     ELSE [r.resp EXCEPT !.to = msg]]

Continue(k, c, lastError) ==
  CASE k.kind = "htu" -> htuResume(k, c)
    [] k.kind = "groupAll" ->
         ForMessage(groupAllLoop(k.rest, c, << >>, k.count + 1), k.msg, lastError)
    [] OTHER -> applyAutoLoop(k.kind, k.rest, c, << >>)

\* chrome.runtime.lastError as the listener's .then may find it (line 938).
\* The browser sets it while the callback of a failed callback-style call
\* runs. The one such call a pass awaits is chrome.windows.getCurrent in
\* getCurrentWindow (lines 752-758): when it fails for the last tab of the
\* pass, the pass ends in the microtasks of that callback. The other calls
\* are promise-based and reject. Only the pass of a 'groupExistingTabs'
\* message reads the value.
LastErrorFor(k) == IF k.kind = "groupAll" /\ k.pc = "window" THEN BOOLEAN ELSE {FALSE}

\* ------------------------------------------------------------------ steps
configVars == <<domainPatterns, enableAutoPatterns, autoPatterns>>
browserVars == <<tabs, activeTab, groups>>

Ev(op, calls, resp) ==
  [op |-> op, calls |-> calls, resp |-> resp, arg |-> << >>, ret |-> FALSE]
\* a message with the pattern or template it carries
EvArg(op, arg, resp) == [Ev(op, << >>, resp) EXCEPT !.arg = arg]
\* a message, with what the method of TabGroupManager it called returned
EvCall(op, arg, ret, resp) == [Ev(op, << >>, resp) EXCEPT !.arg = arg, !.ret = ret]

\* The effect of a handler's synchronous part on the caches, the pending work
\* and the record of the step
Apply(op, r, consumed) ==
  /\ processedUrls' = r.c.pu
  /\ autoPatternCache' = r.c.apc
  /\ prov' = r.c.prov
  /\ tasks' = Without(tasks, consumed) (+) SetToBag(r.spawn)
  /\ BagCardinality(tasks') <= MaxTasks
  /\ ev' = Ev(op, r.outs, r.resp)

Nothing == Result(Caches, << >>, {}, NoResp)

\* chrome.tabs.onCreated (lines 253-258)
onCreated(t, u) ==
  /\ nEv < MaxEvents /\ nEv + nCmd < MaxSteps
  /\ ~tabs[t].open
  /\ tabs' = [tabs EXCEPT ![t] = [open |-> TRUE, url |-> u, groupId |-> TAB_GROUP_ID_NONE]]
  /\ Apply("onCreated",
           handleTabUpdate([id |-> t, url |-> u, groupId |-> TAB_GROUP_ID_NONE], Caches), {})
  /\ nEv' = nEv + 1
  /\ UNCHANGED <<configVars, storage, activeTab, groups, nCmd, matchVars, logVars, popupVars>>

\* An onUpdated listener that does not look at tab.active
onUpdatedMutAnyTab(t, u) ==
  /\ nEv < MaxEvents /\ nEv + nCmd < MaxSteps
  /\ tabs[t].open /\ tabs[t].url # u
  /\ tabs' = [tabs EXCEPT ![t].url = u]
  /\ IF tabs[t].groupId = TAB_GROUP_ID_NONE
     THEN Apply("onUpdated",
                handleTabUpdate([id |-> t, url |-> u, groupId |-> tabs[t].groupId], Caches), {})
     ELSE Apply("onUpdated", Nothing, {})
  /\ nEv' = nEv + 1
  /\ UNCHANGED <<configVars, storage, activeTab, groups, nCmd, matchVars, logVars, popupVars>>

\* chrome.tabs.onUpdated with changeInfo.url (lines 261-273)
onUpdated(t, u) ==
  /\ nEv < MaxEvents /\ nEv + nCmd < MaxSteps
  /\ tabs[t].open /\ tabs[t].url # u
  /\ tabs' = [tabs EXCEPT ![t].url = u]
  /\ IF tabs[t].groupId = TAB_GROUP_ID_NONE /\ t = activeTab
     THEN Apply("onUpdated",
                handleTabUpdate([id |-> t, url |-> u, groupId |-> tabs[t].groupId], Caches), {})
     ELSE Apply("onUpdated", Nothing, {})
  /\ nEv' = nEv + 1
  /\ UNCHANGED <<configVars, storage, activeTab, groups, nCmd, matchVars, logVars, popupVars>>

\* chrome.tabs.onActivated (lines 276-278): the tab is active when the event
\* fires; the async listener calls chrome.tabs.get and is suspended on it
onActivated(t) ==
  /\ nEv < MaxEvents /\ nEv + nCmd < MaxSteps
  /\ tabs[t].open /\ t # activeTab
  /\ activeTab' = t
  /\ Apply("onActivated",
           Result(Caches, << >>, {[Task("activated", "tabsGet") EXCEPT !.tab = t]}, NoResp),
           {})
  /\ nEv' = nEv + 1
  /\ UNCHANGED <<configVars, storage, tabs, groups, nCmd, matchVars, logVars, popupVars>>

\* chrome.tabs.get resolves with the tab as it is now, and the listener goes
\* on (lines 279-283)
tabsGetDone(k) ==
  /\ BagIn(k, tasks) /\ k.pc = "tabsGet"
  /\ IF tabs[k.tab].groupId = TAB_GROUP_ID_NONE
     THEN Apply("tabsGetDone", handleTabUpdate(Snapshot(k.tab), Caches), {k})
     ELSE Apply("tabsGetDone", Nothing, {k})
  /\ UNCHANGED <<configVars, storage, browserVars, nEv, nCmd, matchVars, logVars, popupVars>>

\* chrome.tabs.get rejects: the listener's catch logs it (lines 284-286)
tabsGetFail(k) ==
  /\ BagIn(k, tasks) /\ k.pc = "tabsGet"
  /\ Apply("tabsGetFailed", Nothing, {k})
  /\ UNCHANGED <<configVars, storage, browserVars, nEv, nCmd, matchVars, logVars, popupVars>>

\* ------------------------------------------------------------ addTabToGroup
\* chrome.tabs.group moves the tab; a group left without tabs is gone
TabsMoved(tab, g) == [tabs EXCEPT ![tab].groupId = g]
GroupsLeft(gs, ts) == [g \in {x \in DOMAIN gs : \E t \in Tabs : ts[t].open /\ ts[t].groupId = x}
                         |-> gs[g]]
FreshGroupId ==
  Min({g \in 1..(Cardinality(DOMAIN groups) + BagCardinality(tasks) + 1) :
         g \notin DOMAIN groups /\ \A k \in BagToSet(tasks) : k.gid # g})

\* getCurrentWindow answers with a window that has an id (lines 713-714):
\* chrome.tabGroups.query is called and awaited
atgWindow(k) ==
  /\ BagIn(k, tasks) /\ k.pc = "window"
  /\ tasks' = Without(tasks, {k}) (+) SetToBag({[k EXCEPT !.pc = "query"]})
  /\ ev' = Ev("addTabToGroup", << >>, NoResp)
  /\ UNCHANGED <<configVars, autoPatternCache, processedUrls, storage, browserVars, prov,
                 nEv, nCmd, matchVars, logVars, popupVars>>

\* chrome.tabGroups.query({windowId, title}) answers (lines 717-722)
atgQuery(k) ==
  /\ BagIn(k, tasks) /\ k.pc = "query"
  /\ LET found == {g \in DOMAIN groups : groups[g].title = k.name}
     IN tasks' = Without(tasks, {k})
                 (+) SetToBag({[k EXCEPT !.pc = "group", !.gid = IF found = {}
                              THEN 0 ELSE Min(found)]})
  /\ ev' = Ev("addTabToGroup", << >>, NoResp)
  /\ UNCHANGED <<configVars, autoPatternCache, processedUrls, storage, browserVars, prov,
                 nEv, nCmd, matchVars, logVars, popupVars>>

\* chrome.tabs.group: into the group found (lines 724-730), or a new one (733-735)
atgGroup(k) ==
  /\ BagIn(k, tasks) /\ k.pc = "group"
  /\ IF k.gid # 0
     THEN /\ IF k.gid \in DOMAIN groups
             THEN /\ tabs' = TabsMoved(k.tab, k.gid)
                  /\ groups' = GroupsLeft(groups, TabsMoved(k.tab, k.gid))
             ELSE UNCHANGED <<tabs, groups>>
          /\ Apply("addTabToGroup", Continue(k, Caches, FALSE), {k})
     ELSE LET g == FreshGroupId
          IN /\ tabs' = TabsMoved(k.tab, g)
             /\ groups' = GroupsLeft(MapSet(groups, g, [title |-> << >>, color |-> "grey"]),
                                     TabsMoved(k.tab, g))
             /\ tasks' = Without(tasks, {k}) (+) SetToBag({[k EXCEPT !.pc = "update", !.gid = g]})
             /\ ev' = Ev("addTabToGroup", << >>, NoResp)
             /\ UNCHANGED <<autoPatternCache, processedUrls, prov>>
  /\ UNCHANGED <<configVars, storage, activeTab, nEv, nCmd, matchVars, logVars, popupVars>>

\* chrome.tabGroups.update(groupId, {title, color: color || "grey"}) (lines 738-741)
atgUpdate(k) ==
  /\ BagIn(k, tasks) /\ k.pc = "update"
  /\ groups' = IF k.gid \in DOMAIN groups
               THEN [groups EXCEPT ![k.gid] =
                       [title |-> k.name,
                        color |-> IF k.color = Undefined THEN "grey" ELSE k.color]]
               ELSE groups
  /\ Apply("addTabToGroup", Continue(k, Caches, FALSE), {k})
  /\ UNCHANGED <<configVars, storage, tabs, activeTab, nEv, nCmd, matchVars, logVars,
                 popupVars>>

\* The catch of addTabToGroup (lines 743-745): the error is logged, the call
\* returns, and its caller goes on as after a call that succeeded
atgCaughtMutPropagates(k, c, lastError) ==
  Result(c, << >>, {}, IF k.kind = "groupAll" THEN Resp(FALSE, 0) ELSE NoResp)

atgCaught(k, c, lastError) == Continue(k, c, lastError)

\* An awaited browser call of addTabToGroup fails. chrome.windows.getCurrent
\* gives its callback no window (reading currentWindow.id throws, line 714) or
\* a window without id (the call returns, line 714); chrome.tabGroups.query,
\* chrome.tabs.group or chrome.tabGroups.update rejects: a group that
\* chrome.tabs.group had created stays, untitled. A failure is an event of
\* the browser and counts as one.
atgFail(k, lastError) ==
  /\ nEv < MaxEvents /\ nEv + nCmd < MaxSteps
  /\ BagIn(k, tasks) /\ k.pc \in {"window", "query", "group", "update"}
  /\ Apply("addTabToGroupFailed", atgCaught(k, Caches, lastError), {k})
  /\ nEv' = nEv + 1
  /\ UNCHANGED <<configVars, storage, browserVars, nCmd, matchVars, logVars, popupVars>>

\* ------------------------------------------------------- the passes' starts
\* chrome.tabs.query resolves: the pass runs to its first await
tabsQueryDone(k) ==
  /\ BagIn(k, tasks) /\ k.pc = "tabsQuery"
  /\ Apply(k.kind,
           CASE k.kind = "applyPatterns" -> handleTabUpdateAll(QueryTabs, Caches, << >>, {})
             [] k.kind = "groupAll" ->
                  ForMessage(groupAllLoop(SelectSeq(QueryTabs, IsUngroupedCandidate),
                                          Caches, << >>, 0), k.msg, FALSE)
             [] OTHER -> applyAutoLoop(k.kind, QueryTabs, Caches, << >>),
           {k})
  /\ UNCHANGED <<configVars, storage, browserVars, nEv, nCmd, matchVars, logVars, popupVars>>

\* chrome.tabs.query rejects. groupAllExistingTabs catches it and returns 0
\* (lines 699-702), which the listener answers with; applyAutoPatternsToTabs
\* catches and logs it (lines 619-621); in applyPatternsToExistingTabs and
\* applyAutoPatternToExistingTabs the rejection is unhandled. In each the pass
\* is over. A rejection is an event of the browser and counts as one.
tabsQueryFail(k) ==
  /\ nEv < MaxEvents /\ nEv + nCmd < MaxSteps
  /\ BagIn(k, tasks) /\ k.pc = "tabsQuery"
  /\ Apply("tabsQueryFailed",
           IF k.kind = "groupAll"
           THEN ForMessage(Result(Caches, << >>, {}, Resp(TRUE, 0)), k.msg, FALSE)
           ELSE Nothing,
           {k})
  /\ nEv' = nEv + 1
  /\ UNCHANGED <<configVars, storage, browserVars, nCmd, matchVars, logVars, popupVars>>

\* applyAutoPatternsToTabs, run by the listener's setTimeout(.., 100): it tests
\* the flag and sets a timer of 0 ms (lines 593-601)
applyAutoPatternsToTabs(k) ==
  /\ BagIn(k, tasks) /\ k.pc = "timeout"
  /\ tasks' = Without(tasks, {k})
              (+) SetToBag(IF enableAutoPatterns THEN {Task("applyAutoTabs", "timeout0")} ELSE {})
  /\ ev' = Ev("applyAutoPatternsToTabs", << >>, NoResp)
  /\ UNCHANGED <<configVars, autoPatternCache, processedUrls, storage, browserVars, prov,
                 nEv, nCmd, matchVars, logVars, popupVars>>

\* The timer of 0 ms fires: its callback calls chrome.tabs.query and awaits
\* it (lines 601-603)
applyAutoPatternsTimer(k) ==
  /\ BagIn(k, tasks) /\ k.pc = "timeout0"
  /\ tasks' = Without(tasks, {k}) (+) SetToBag({[k EXCEPT !.pc = "tabsQuery"]})
  /\ ev' = Ev("applyAutoPatternsToTabs", << >>, NoResp)
  /\ UNCHANGED <<configVars, autoPatternCache, processedUrls, storage, browserVars, prov,
                 nEv, nCmd, matchVars, logVars, popupVars>>

\* ---------------------------------------------------------------- commands
\* clearUrlCache (lines 375-378) as the suspended handleTabUpdate calls see it:
\* pre marks a call whose result predates the clearing
ClearUrlCacheTasks(ts) ==
  ImageBag(ts, [k \in BagToSet(ts) |->
                  IF k.then = "setCache" THEN [k EXCEPT !.pre = TRUE, !.cfg = TRUE] ELSE k])
\* a configuration change that clears nothing
ConfigChangedTasks(ts) ==
  ImageBag(ts, [k \in BagToSet(ts) |->
                  IF k.then = "setCache" THEN [k EXCEPT !.cfg = TRUE] ELSE k])
MarkStale(pv) == [u \in DOMAIN pv |-> [pv[u] EXCEPT !.stale = TRUE]]

\* savePatterns (lines 770-775): patterns are stored by their source text
SerializeManual(dps) ==
  [i \in 1..Len(dps) |-> [patternStr |-> dps[i].pattern.source,
                          groupName |-> dps[i].groupName, color |-> dps[i].color]]
\* saveSettings (lines 567-571)
SerializeAuto(aps) ==
  [i \in 1..Len(aps) |-> [template |-> aps[i].template, regexStr |-> aps[i].regex.source,
                          namePosition |-> aps[i].namePosition]]
saveSettings(st, aps, enabled) ==
  [st EXCEPT !.autoPatterns = Stored(SerializeAuto(aps)),
             !.enableAutoPatterns = Stored(enabled)]

TemplatesOf(aps) == {aps[i].template : i \in 1..Len(aps)}

\* PopupManager.addPattern up to its await (lines 1465-1508): the Add button is
\* clicked with a pattern that compiles; the message is sent, and the page
\* awaits the response or its timer of 1000 ms. id tells the messages apart.
popupAddPattern(m) ==
  /\ nCmd < MaxCommands /\ nEv + nCmd < MaxSteps
  /\ nCmd' = nCmd + 1
  /\ outbox' = Append(outbox, [msg |-> m, id |-> nCmd'])
  /\ awaiting' = Append(awaiting, [msg |-> m, id |-> nCmd', answered |-> FALSE])
  /\ ev' = EvArg("popupAddPattern", m.patternStr, NoResp)
  /\ UNCHANGED <<configVars, autoPatternCache, processedUrls, storage, browserVars, prov,
                 tasks, nEv, matchVars, logVars, patterns, loading>>

\* The 'addPattern' messages the listener can handle next: the oldest that a
\* popup has sent, or one from another sender (id 0)
IncomingAddPattern ==
  {[msg |-> InvalidManual, id |-> 0]} \cup (IF outbox = << >> THEN {} ELSE {Head(outbox)})

\* The 'addPattern' message (lines 882-891) and TabGroupManager.addPattern
\* (383-398): savePatterns stores the manager's list. The response is on its
\* way to the page that sent the message, if that page is still open and its
\* promise is still pending.
addPattern(e) ==
  /\ IF e.id = 0
     THEN /\ nCmd < MaxCommands /\ nEv + nCmd < MaxSteps
          /\ nCmd' = nCmd + 1
          /\ UNCHANGED outbox
     ELSE /\ outbox # << >> /\ e = Head(outbox)
          /\ outbox' = Tail(outbox)
          /\ UNCHANGED nCmd
  /\ IF RegExpThrows(e.msg.patternStr)
     THEN /\ UNCHANGED <<domainPatterns, processedUrls, prov, tasks, storage>>
     ELSE /\ domainPatterns' = Append(domainPatterns,
                                      [pattern |-> NewRegExp(e.msg.patternStr),
                                       groupName |-> e.msg.groupName, color |-> e.msg.color])
          /\ storage' = [storage EXCEPT !.domainPatterns =
                           Stored(SerializeManual(domainPatterns'))]
          /\ processedUrls' = EmptyMap
          /\ prov' = EmptyMap
          /\ tasks' = ClearUrlCacheTasks(tasks) (+) SetToBag({Task("applyPatterns", "tabsQuery")})
  /\ awaiting' = [i \in 1..Len(awaiting) |->
                    IF awaiting[i].id = e.id THEN [awaiting[i] EXCEPT !.answered = TRUE]
                    ELSE awaiting[i]]
  /\ ev' = EvArg("addPattern", e.msg.patternStr, Resp(TRUE, 0))
  /\ BagCardinality(tasks') <= MaxTasks
  /\ UNCHANGED <<enableAutoPatterns, autoPatterns, autoPatternCache, browserVars, nEv,
                 matchVars, logVars, patterns, loading>>

\* The response to the page's 'addPattern' arrives before its timer fires,
\* with success: the popup appends the pattern to its list and stores that
\* list (PopupManager.addPattern, lines 1495-1516; savePatterns, 1553-1563)
popupAddPatternDone ==
  /\ awaiting # << >> /\ Head(awaiting).answered
  /\ patterns' = Append(patterns, Head(awaiting).msg)
  /\ awaiting' = Tail(awaiting)
  /\ storage' = [storage EXCEPT !.domainPatterns = Stored(patterns')]
  /\ ev' = Ev("popupAddPatternDone", << >>, NoResp)
  /\ UNCHANGED <<configVars, autoPatternCache, processedUrls, browserVars, prov, tasks,
                 nEv, nCmd, matchVars, logVars, outbox, loading>>

\* The page's timer of 1000 ms fires before the response is there: the
\* promise is settled with false and the popup keeps its list (lines 1507,
\* 1520-1522); a response that arrives later changes nothing
popupAddPatternTimeout ==
  /\ awaiting # << >>
  /\ awaiting' = Tail(awaiting)
  /\ ev' = Ev("popupAddPatternTimeout", << >>, NoResp)
  /\ UNCHANGED <<configVars, autoPatternCache, processedUrls, storage, browserVars, prov,
                 tasks, nEv, nCmd, matchVars, logVars, patterns, outbox, loading>>

\* The popup is opened: a new PopupManager starts with an empty list and its
\* constructor calls loadPatterns, which calls chrome.storage.local.get (lines
\* 1008, 1012-1034, 1534-1537). The page of the popup that was open before is
\* gone, and with it the promises it had pending; a message it sent is
\* still handled by the listener.
popupOpen ==
  /\ nCmd < MaxCommands /\ nEv + nCmd < MaxSteps
  /\ nCmd' = nCmd + 1
  /\ patterns' = << >>
  /\ awaiting' = << >>
  /\ loading' = TRUE
  /\ ev' = Ev("popupOpen", << >>, NoResp)
  /\ UNCHANGED <<configVars, autoPatternCache, processedUrls, storage, browserVars, prov,
                 tasks, nEv, matchVars, logVars, outbox>>

\* The callback of the popup's chrome.storage.local.get (lines 1537-1548):
\* with chrome.runtime.lastError set it returns; else a stored list, empty or
\* not, replaces the popup's list
popupLoadPatterns(lastError) ==
  /\ loading
  /\ loading' = FALSE
  /\ patterns' = IF ~lastError /\ storage.domainPatterns.has
                 THEN storage.domainPatterns.val ELSE patterns
  /\ ev' = Ev("popupLoadPatterns", << >>, NoResp)
  /\ UNCHANGED <<configVars, autoPatternCache, processedUrls, storage, browserVars, prov,
                 tasks, nEv, nCmd, matchVars, logVars, outbox, awaiting>>

\* An 'addAutoPattern' that does not look for the template in the list
addAutoPatternMutNoDuplicateTest(template) ==
  /\ nCmd < MaxCommands /\ nEv + nCmd < MaxSteps
  /\ nCmd' = nCmd + 1
  /\ Includes(template, ":name")
  /\ autoPatterns' = Append(autoPatterns, createAutoPattern(template))
  /\ storage' = saveSettings(storage, autoPatterns', enableAutoPatterns)
  /\ processedUrls' = EmptyMap
  /\ prov' = EmptyMap
  /\ tasks' = ClearUrlCacheTasks(tasks)
  /\ ev' = EvCall("addAutoPattern", template, TRUE, Resp(TRUE, 0))
  /\ UNCHANGED <<domainPatterns, enableAutoPatterns, autoPatternCache, browserVars, nEv,
                 matchVars, logVars, popupVars>>

\* An 'addAutoPattern' that validates nothing: it reports success and clears
\* the URL cache for any template
addAutoPatternMutAccepts(template) ==
  /\ nCmd < MaxCommands /\ nEv + nCmd < MaxSteps
  /\ nCmd' = nCmd + 1
  /\ processedUrls' = EmptyMap
  /\ prov' = EmptyMap
  /\ ev' = EvArg("addAutoPattern", template, Resp(TRUE, 0))
  /\ UNCHANGED <<configVars, storage, tasks, autoPatternCache, browserVars, nEv, matchVars,
                 logVars, popupVars>>

\* The 'addAutoPattern' message (lines 837-871) and TabGroupManager.addAutoPattern
\* (lines 403-439)
addAutoPattern(template) ==
  /\ nCmd < MaxCommands /\ nEv + nCmd < MaxSteps
  /\ nCmd' = nCmd + 1
  /\ IF template = << >> \/ ~Includes(template, ":name")
     THEN /\ ev' = EvCall("addAutoPattern", template, FALSE, Resp(FALSE, 0))
          /\ UNCHANGED <<autoPatterns, storage, processedUrls, prov, tasks>>
     ELSE IF template \in TemplatesOf(autoPatterns)
     THEN \* addAutoPattern returns false; the listener finds the template in the list
          /\ ev' = EvCall("addAutoPattern", template, FALSE, Resp(TRUE, 0))
          /\ tasks' = tasks
                      (+) SetToBag(IF enableAutoPatterns
                                   THEN {Task("applyAutoTabs", "timeout")} ELSE {})
          /\ UNCHANGED <<autoPatterns, storage, processedUrls, prov>>
     ELSE /\ autoPatterns' = Append(autoPatterns, createAutoPattern(template))
          /\ storage' = saveSettings(storage, autoPatterns', enableAutoPatterns)
          /\ processedUrls' = EmptyMap
          /\ prov' = EmptyMap
          /\ tasks' = ClearUrlCacheTasks(tasks)
                      (+) SetToBag(IF enableAutoPatterns
                                   THEN {Task("applyAuto", "tabsQuery"),
                                         Task("applyAutoTabs", "timeout")}
                                   ELSE {})
          /\ ev' = EvCall("addAutoPattern", template, TRUE, Resp(TRUE, 0))
  /\ BagCardinality(tasks') <= MaxTasks
  /\ UNCHANGED <<domainPatterns, enableAutoPatterns, autoPatternCache, browserVars, nEv,
                 matchVars, logVars, popupVars>>

\* A removeAutoPattern that drops the first template whatever it is asked
removeAutoPatternMutDropsFirst(template) ==
  /\ nCmd < MaxCommands /\ nEv + nCmd < MaxSteps
  /\ nCmd' = nCmd + 1
  /\ autoPatterns # << >>
  /\ autoPatterns' = Tail(autoPatterns)
  /\ storage' = saveSettings(storage, Tail(autoPatterns), enableAutoPatterns)
  /\ processedUrls' = EmptyMap
  /\ prov' = EmptyMap
  /\ autoPatternCache' = EmptyMap
  /\ tasks' = ClearUrlCacheTasks(tasks)
  /\ ev' = EvCall("removeAutoPattern", template, TRUE, Resp(TRUE, 0))
  /\ UNCHANGED <<domainPatterns, enableAutoPatterns, browserVars, nEv, matchVars, logVars,
                 popupVars>>

\* The 'removeAutoPattern' message (lines 907-927) and
\* TabGroupManager.removeAutoPattern (lines 444-468)
removeAutoPattern(template) ==
  /\ nCmd < MaxCommands /\ nEv + nCmd < MaxSteps
  /\ nCmd' = nCmd + 1
  /\ LET kept == SelectSeq(autoPatterns, LAMBDA p : p.template # template)
     IN IF Len(kept) < Len(autoPatterns)
        THEN /\ autoPatterns' = kept
             /\ storage' = saveSettings(storage, kept, enableAutoPatterns)
             /\ processedUrls' = EmptyMap
             /\ prov' = EmptyMap
             /\ autoPatternCache' = EmptyMap
             /\ tasks' = ClearUrlCacheTasks(tasks)
                         (+) SetToBag(IF enableAutoPatterns
                                      THEN {Task("applyAutoTabs", "timeout")} ELSE {})
        ELSE /\ tasks' = tasks
                         (+) SetToBag(IF enableAutoPatterns
                                      THEN {Task("applyAutoTabs", "timeout")} ELSE {})
             /\ UNCHANGED <<autoPatterns, storage, processedUrls, prov, autoPatternCache>>
  \* wasRemoved = !templates.includes(template), true either way
  /\ ev' = EvCall("removeAutoPattern", template,
                  Len(SelectSeq(autoPatterns, LAMBDA p : p.template # template))
                    < Len(autoPatterns),
                  Resp(TRUE, 0))
  /\ BagCardinality(tasks') <= MaxTasks
  /\ UNCHANGED <<domainPatterns, enableAutoPatterns, browserVars, nEv, matchVars, logVars,
                 popupVars>>

\* The 'setAutoPatterns' message (lines 900-905) and
\* TabGroupManager.setAutoPatterns (lines 474-488)
setAutoPatterns(enabled) ==
  /\ nCmd < MaxCommands /\ nEv + nCmd < MaxSteps
  /\ nCmd' = nCmd + 1
  /\ enableAutoPatterns' = enabled
  /\ storage' = saveSettings(storage, autoPatterns, enabled)
  /\ processedUrls' = EmptyMap
  /\ prov' = EmptyMap
  /\ tasks' = ClearUrlCacheTasks(tasks)
              (+) SetToBag(IF enabled THEN {Task("applyAuto", "tabsQuery")} ELSE {})
  /\ ev' = Ev("setAutoPatterns", << >>, Resp(TRUE, 0))
  /\ BagCardinality(tasks') <= MaxTasks
  /\ UNCHANGED <<domainPatterns, autoPatterns, autoPatternCache, browserVars, nEv, matchVars,
                 logVars, popupVars>>

\* The 'groupExistingTabs' message (lines 929-966): groupAllExistingTabs starts
\* and awaits chrome.tabs.query; the response is sent when the pass has ended
groupExistingTabs ==
  /\ nCmd < MaxCommands /\ nEv + nCmd < MaxSteps
  /\ nCmd' = nCmd + 1
  /\ tasks' = tasks (+) SetToBag({[Task("groupAll", "tabsQuery") EXCEPT !.msg = nCmd + 1]})
  /\ ev' = Ev("groupExistingTabs", << >>, NoResp)
  /\ BagCardinality(tasks') <= MaxTasks
  /\ UNCHANGED <<configVars, autoPatternCache, processedUrls, storage, browserVars, prov,
                 nEv, matchVars, logVars, popupVars>>

\* A message whose action the listener does not know (lines 968-969)
unknownAction ==
  /\ nCmd < MaxCommands /\ nEv + nCmd < MaxSteps
  /\ nCmd' = nCmd + 1
  /\ ev' = Ev("unknownAction", << >>, Resp(FALSE, 0))
  /\ UNCHANGED <<configVars, autoPatternCache, processedUrls, storage, browserVars, prov,
                 tasks, nEv, matchVars, logVars, popupVars>>

\* An 'addAutoPattern' message whose template is not a string (a number, say):
\* message.template.includes is not a function, the TypeError leaves the
\* listener at line 841, before its try blocks, and nothing is sent
addAutoPatternNotString ==
  /\ nCmd < MaxCommands /\ nEv + nCmd < MaxSteps
  /\ nCmd' = nCmd + 1
  /\ ev' = Ev("addAutoPattern(not a string)", << >>, NoResp)
  /\ UNCHANGED <<configVars, autoPatternCache, processedUrls, storage, browserVars, prov,
                 tasks, nEv, matchVars, logVars, popupVars>>

\* PopupManager.removePattern (lines 1570-1587): the popup's list loses the
\* entry at index and is stored; refreshPatterns is sent
RemoveAt(s, i) == SubSeq(s, 1, i - 1) \o SubSeq(s, i + 1, Len(s))
removePattern(index) ==
  /\ nCmd < MaxCommands /\ nEv + nCmd < MaxSteps
  /\ nCmd' = nCmd + 1
  /\ index \in 1..Len(patterns)
  /\ patterns' = RemoveAt(patterns, index)
  /\ storage' = [storage EXCEPT !.domainPatterns = Stored(patterns')]
  /\ tasks' = tasks (+) SetToBag({Task("message", "refreshPatterns")})
  /\ ev' = Ev("removePattern", << >>, NoResp)
  /\ BagCardinality(tasks') <= MaxTasks
  /\ UNCHANGED <<configVars, autoPatternCache, processedUrls, browserVars, prov, nEv,
                 matchVars, logVars, outbox, awaiting, loading>>

\* The 'refreshPatterns' message (lines 893-898), refreshPatterns (763-765) and
\* loadPatternsFromStorage up to chrome.storage.local.get (lines 153-165)
refreshPatterns(k) ==
  /\ BagIn(k, tasks) /\ k.pc = "refreshPatterns"
  /\ domainPatterns' = << >>
  /\ autoPatterns' = <<createAutoPattern(DefaultTemplate)>>
  /\ tasks' = ConfigChangedTasks(Without(tasks, {k})) (+) SetToBag({Task("load", "storageGet")})
  /\ prov' = MarkStale(prov)
  /\ ev' = Ev("refreshPatterns", << >>, Resp(TRUE, 0))
  /\ UNCHANGED <<enableAutoPatterns, autoPatternCache, processedUrls, storage, browserVars,
                 nEv, nCmd, matchVars, logVars, popupVars>>

\* A load that drops the stored auto-patterns that do not compile and keeps
\* the others
loadedAutoPatternsMutKeepsRest(stored) ==
  LET good == SelectSeq(stored, LAMBDA p : ~RegExpThrows(p.regexStr))
  IN [i \in 1..Len(good) |-> [template |-> good[i].template,
                              regex |-> NewRegExp(good[i].regexStr),
                              namePosition |-> good[i].namePosition]]

\* The callback of chrome.storage.local.get in loadPatternsFromStorage (165-208)
loadedAutoPatterns(stored) ==
  IF \E i \in 1..Len(stored) : RegExpThrows(stored[i].regexStr)
  THEN <<createAutoPattern(DefaultTemplate)>>
  ELSE [i \in 1..Len(stored) |-> [template |-> stored[i].template,
                                  regex |-> NewRegExp(stored[i].regexStr),
                                  namePosition |-> stored[i].namePosition]]

\* result.domainPatterns.map(p => new RegExp(p.patternStr)) throws (lines 168-173)
loadedManualThrows(stored) == \E i \in 1..Len(stored) : RegExpThrows(stored[i].patternStr)

\* The callback of chrome.storage.local.get (lines 165-208). Nothing catches
\* what the conversion of the stored manual patterns throws: the callback ends
\* there, before any assignment.
storageGetDone(k) ==
  /\ BagIn(k, tasks) /\ k.pc = "storageGet"
  /\ IF storage.domainPatterns.has /\ loadedManualThrows(storage.domainPatterns.val)
     THEN /\ tasks' = Without(tasks, {k})
          /\ ev' = Ev("loadPatternsFromStorageThrew", << >>, NoResp)
          /\ UNCHANGED <<configVars, prov>>
     ELSE /\ domainPatterns' =
               IF storage.domainPatterns.has
               THEN [i \in 1..Len(storage.domainPatterns.val) |->
                       [pattern |-> NewRegExp(storage.domainPatterns.val[i].patternStr),
                        groupName |-> storage.domainPatterns.val[i].groupName,
                        color |-> storage.domainPatterns.val[i].color]]
               ELSE domainPatterns
          /\ enableAutoPatterns' =
               IF storage.enableAutoPatterns.has THEN storage.enableAutoPatterns.val
               ELSE enableAutoPatterns
          /\ autoPatterns' =
               IF storage.autoPatterns.has /\ Len(storage.autoPatterns.val) > 0
               THEN loadedAutoPatterns(storage.autoPatterns.val)
               ELSE autoPatterns
          /\ tasks' = ConfigChangedTasks(Without(tasks, {k}))
                      (+) SetToBag(IF enableAutoPatterns'
                                   THEN {Task("applyAuto", "tabsQuery")} ELSE {})
          /\ prov' = MarkStale(prov)
          /\ ev' = Ev("loadPatternsFromStorage", << >>, NoResp)
  /\ UNCHANGED <<autoPatternCache, processedUrls, storage, browserVars, nEv, nCmd,
                 matchVars, logVars, popupVars>>

\* ------------------------------------------------------------ specification
\* The state after new TabGroupManager(): the defaults of loadPatternsFromStorage
\* with its storage read pending (lines 134-148, 157-165); a fresh profile's
\* storage; one tab open
InitEngine ==
  /\ domainPatterns = << >>
  /\ enableAutoPatterns = TRUE
  /\ autoPatterns = <<createAutoPattern(DefaultTemplate)>>
  /\ autoPatternCache = EmptyMap
  /\ processedUrls = EmptyMap
  /\ storage = [domainPatterns |-> Absent, enableAutoPatterns |-> AbsentFlag,
                autoPatterns |-> Absent]
  /\ tabs = [t \in Tabs |-> [open |-> t = 1, url |-> Url("https", DomAB, "x"),
                              groupId |-> TAB_GROUP_ID_NONE]]
  /\ activeTab = 1
  /\ groups = EmptyMap
  /\ tasks = SetToBag({Task("load", "storageGet")})
  /\ ev = Ev("init", << >>, NoResp)
  /\ prov = EmptyMap
  /\ nEv = 0
  /\ nCmd = 0
  /\ logs = << >>
  /\ nLog = 0
  /\ patterns = << >>
  /\ outbox = << >>
  /\ awaiting = << >>
  /\ loading = FALSE

Init ==
  /\ InitEngine
  /\ mTpl = << >>
  /\ mDom = << >>
  /\ mOut = NoOut

Next ==
  \/ \E t \in Tabs, u \in Urls : onCreated(t, u)
  \/ \E t \in Tabs, u \in Urls : onUpdated(t, u)
  \/ \E t \in Tabs : onActivated(t)
  \/ \E k \in BagToSet(tasks) : tabsGetDone(k)
  \/ \E k \in BagToSet(tasks) : tabsGetFail(k)
  \/ \E k \in BagToSet(tasks) : atgWindow(k)
  \/ \E k \in BagToSet(tasks) : atgQuery(k)
  \/ \E k \in BagToSet(tasks) : atgGroup(k)
  \/ \E k \in BagToSet(tasks) : atgUpdate(k)
  \/ \E k \in BagToSet(tasks) : \E le \in LastErrorFor(k) : atgFail(k, le)
  \/ \E k \in BagToSet(tasks) : tabsQueryDone(k)
  \/ \E k \in BagToSet(tasks) : tabsQueryFail(k)
  \/ \E k \in BagToSet(tasks) : applyAutoPatternsToTabs(k)
  \/ \E k \in BagToSet(tasks) : applyAutoPatternsTimer(k)
  \/ \E m \in ManualChoices : popupAddPattern(m)
  \/ \E e \in IncomingAddPattern : addPattern(e)
  \/ popupAddPatternDone
  \/ popupAddPatternTimeout
  \/ popupOpen
  \/ \E le \in BOOLEAN : popupLoadPatterns(le)
  \/ \E t \in TemplateChoices : addAutoPattern(t)
  \/ \E t \in TemplateChoices \cup {DefaultTemplate} : removeAutoPattern(t)
  \/ \E b \in BOOLEAN : setAutoPatterns(b)
  \/ groupExistingTabs
  \/ unknownAction
  \/ addAutoPatternNotString
  \/ \E i \in 1..2 : removePattern(i)
  \/ \E k \in BagToSet(tasks) : refreshPatterns(k)
  \/ \E k \in BagToSet(tasks) : storageGetDone(k)

Spec == Init /\ [][Next]_vars

\* ------------------------------------------- the template compiler on its own
\* createAutoPattern(template) and one matchAutoPattern(domain) against the
\* pattern it returned, for every template and domain within the bounds
InitMatch ==
  /\ InitEngine
  /\ mTpl \in SeqsUpTo(TplTokens, MaxTplLen)
  /\ mDom \in SeqsUpTo(DomChars, MaxDomLen)
  /\ mOut = NoOut

compileAndMatch ==
  /\ ~mOut.done
  /\ mOut' = IF createAutoPatternThrows(mTpl)
             THEN [done |-> TRUE, threw |-> TRUE, ok |-> FALSE, name |-> << >>]
             ELSE LET p == createAutoPattern(mTpl)
                  IN [done |-> TRUE, threw |-> FALSE, ok |-> RegExpTest(p.regex, mDom),
                      name |-> matchAutoPatternIn(<<p>>, mDom)]
  /\ UNCHANGED <<engineVars, mTpl, mDom, logVars>>

NextMatch == compileAndMatch

SpecMatch == InitMatch /\ [][NextMatch]_vars

\* ------------------------------------------------ the start of a later session
\* new TabGroupManager() in a browser that already has tabs and a profile whose
\* storage an earlier session wrote: what loadPatternsFromStorage and the passes
\* make of it, with the commands that start a pass.
FreshStorage ==
  [domainPatterns |-> Absent, enableAutoPatterns |-> AbsentFlag, autoPatterns |-> Absent]
\* a stored auto-pattern whose regexStr no longer compiles
DamagedAutoPattern ==
  [template |-> <<"*", ".", ":name">>, regexStr |-> <<"(">>, namePosition |-> 1]
StoredConfigs ==
  { FreshStorage,
    saveSettings(FreshStorage, <<createAutoPattern(<<":name">>)>>, TRUE),
    \* saved by removeAutoPattern after the last template was removed
    saveSettings(FreshStorage, << >>, TRUE),
    [FreshStorage EXCEPT
       !.autoPatterns = Stored(SerializeAuto(<<createAutoPattern(<<":name", ".", "a">>)>>)
                               \o <<DamagedAutoPattern>>),
       !.enableAutoPatterns = Stored(TRUE)],
    [FreshStorage EXCEPT
       !.domainPatterns = Stored(<<[patternStr |-> <<"b">>, groupName |-> <<"H">>,
                                    color |-> "red"]>>)],
    \* a stored manual pattern that no longer compiles, beside one that does,
    \* with auto-patterns saved as disabled
    [saveSettings(FreshStorage, <<createAutoPattern(<<":name">>)>>, FALSE) EXCEPT
       !.domainPatterns = Stored(<<[patternStr |-> <<"b">>, groupName |-> <<"H">>,
                                    color |-> "red"], InvalidManual>>)] }

\* a browser page, a string new URL() rejects, and a group the user made
InternalUrl == Url("chrome", <<"a">>, "x")
UnparsableUrl == Url("none", << >>, "x")
UserGroup == 1
StartupTabs ==
  { [open |-> TRUE, url |-> Url("https", DomAB, "x"), groupId |-> TAB_GROUP_ID_NONE],
    [open |-> TRUE, url |-> Url("https", DomAB, "x"), groupId |-> UserGroup],
    [open |-> TRUE, url |-> InternalUrl, groupId |-> TAB_GROUP_ID_NONE],
    [open |-> TRUE, url |-> UnparsableUrl, groupId |-> TAB_GROUP_ID_NONE] }

InitStartup ==
  /\ domainPatterns = << >>
  /\ enableAutoPatterns = TRUE
  /\ autoPatterns = <<createAutoPattern(DefaultTemplate)>>
  /\ autoPatternCache = EmptyMap
  /\ processedUrls = EmptyMap
  /\ storage \in StoredConfigs
  /\ \E first \in StartupTabs :
       /\ tabs = [t \in Tabs |->
                    IF t = 1 THEN first
                    ELSE [open |-> TRUE, url |-> Url("https", DomBA, "x"),
                          groupId |-> TAB_GROUP_ID_NONE]]
       /\ groups = IF first.groupId = UserGroup
                   THEN MapSet(EmptyMap, UserGroup, [title |-> <<"U">>, color |-> "grey"])
                   ELSE EmptyMap
  /\ activeTab = 1
  /\ tasks = SetToBag({Task("load", "storageGet")})
  /\ ev = Ev("init", << >>, NoResp)
  /\ prov = EmptyMap
  /\ nEv = 0
  /\ nCmd = 0
  /\ logs = << >>
  /\ nLog = 0
  /\ patterns = IF storage.domainPatterns.has THEN storage.domainPatterns.val ELSE << >>
  /\ outbox = << >>
  /\ awaiting = << >>
  /\ loading = FALSE
  /\ mTpl = << >>
  /\ mDom = << >>
  /\ mOut = NoOut

NextStartup ==
  \/ \E t \in Tabs : onActivated(t)
  \/ \E k \in BagToSet(tasks) : tabsGetDone(k)
  \/ \E k \in BagToSet(tasks) : tabsGetFail(k)
  \/ \E k \in BagToSet(tasks) : storageGetDone(k)
  \/ \E k \in BagToSet(tasks) : tabsQueryDone(k)
  \/ \E k \in BagToSet(tasks) : tabsQueryFail(k)
  \/ \E k \in BagToSet(tasks) : atgWindow(k)
  \/ \E k \in BagToSet(tasks) : atgQuery(k)
  \/ \E k \in BagToSet(tasks) : atgGroup(k)
  \/ \E k \in BagToSet(tasks) : atgUpdate(k)
  \/ \E k \in BagToSet(tasks) : \E le \in LastErrorFor(k) : atgFail(k, le)
  \/ \E k \in BagToSet(tasks) : applyAutoPatternsToTabs(k)
  \/ \E k \in BagToSet(tasks) : applyAutoPatternsTimer(k)
  \/ \E t \in TemplateChoices : addAutoPattern(t)
  \/ groupExistingTabs

SpecStartup == InitStartup /\ [][NextStartup]_vars

\* The pass of message m is suspended on an awaited browser call: on
\* chrome.tabs.query (pc "tabsQuery"), or on a call inside addTabToGroup for
\* the tab before the last n tabs of its snapshot
AwaitAt(m, pc, n) ==
  \E k \in BagToSet(tasks) : k.kind = "groupAll" /\ k.msg = m /\ k.pc = pc /\ Len(k.rest) = n
\* The browser answers, by returning or by rejecting, every call a pass of
\* groupAllExistingTabs awaits: no pass stays suspended on one call for ever.
\* (The step that answers a call is enabled whenever the call is pending; this
\* is weak fairness of that step, written over the states.)
CallsReturn ==
  \A m \in 1..MaxCommands : \A pc \in {"tabsQuery", "window", "query", "group", "update"} :
    \A n \in 0..Cardinality(Tabs) : []<>~AwaitAt(m, pc, n)

SpecStartupFair == InitStartup /\ [][NextStartup]_vars /\ CallsReturn

\* --------------------------------------------------------------- LogManager
\* LogManager.maxLogs (line 82)
maxLogs == 100

\* A log that never trims
logMutNoTrim ==
  /\ nLog < MaxLogCalls
  /\ nLog' = nLog + 1
  /\ logs' = <<nLog + 1>> \o logs
  /\ UNCHANGED <<engineVars, matchVars>>

\* LogManager.log (lines 89-111): unshift the entry, then pop when the array
\* is longer than maxLogs. An entry is the number of the call that wrote it
\* (the text and its timestamp are not looked at again).
log ==
  /\ nLog < MaxLogCalls
  /\ nLog' = nLog + 1
  /\ LET unshifted == <<nLog + 1>> \o logs
     IN logs' = IF Len(unshifted) > maxLogs
                THEN SubSeq(unshifted, 1, Len(unshifted) - 1)
                ELSE unshifted
  /\ UNCHANGED <<engineVars, matchVars>>

\* LogManager.clearLogs (lines 124-126)
clearLogs ==
  /\ logs' = << >>
  /\ UNCHANGED <<engineVars, matchVars, nLog>>

NextLog == log \/ clearLogs

SpecLog == Init /\ [][NextLog]_vars

\* ==================================================================== claims
\* The handler runs of the last step
Calls == Range(ev.calls)
\* A run of handleTabUpdate that missed the URL cache and classified the tab
IsMiss(o) == o.by = "handleTabUpdate" /\ o.path \in {"manual", "auto", "nomatch"}
\* A run of the loop of groupAllExistingTabs that classified the tab
IsBulk(o) == o.by = "groupAllExistingTabs" /\ o.path \in {"manual", "dcache", "auto", "nomatch"}
\* The manual patterns that match a domain, by position
ManualHits(domain) ==
  {i \in 1..Len(domainPatterns) : RegExpTest(domainPatterns[i].pattern, domain)}

\* The dot-separated labels of a domain, or segments of a template
RECURSIVE Labels(_)
Labels(s) ==
  LET dots == {i \in 1..Len(s) : s[i] = "."}
  IN IF dots = {} THEN <<s>>
     ELSE <<SubSeq(s, 1, Min(dots) - 1)>> \o Labels(SubSeq(s, Min(dots) + 1, Len(s)))
\* A segment of a template against a label: a wildcard or the placeholder
\* stands for one or more characters, any other token for itself
RECURSIVE SegMatch(_, _)
SegMatch(seg, lab) ==
  IF seg = << >> THEN lab = << >>
  ELSE IF Head(seg) \in {"*", ":name"}
       THEN \E k \in 1..Len(lab) : SegMatch(Tail(seg), SubSeq(lab, k + 1, Len(lab)))
       ELSE lab # << >> /\ Head(lab) = Head(seg) /\ SegMatch(Tail(seg), Tail(lab))
\* Label by label: as many labels as segments, each label fitting its segment
TemplateAccepts(template, domain) ==
  /\ Len(Labels(template)) = Len(Labels(domain))
  /\ \A i \in 1..Len(Labels(template)) : SegMatch(Labels(template)[i], Labels(domain)[i])
\* The label under the placeholder of a template whose placeholder is a segment
NameLabel(template, domain) ==
  Labels(domain)[Min({i \in 1..Len(Labels(template)) : Labels(template)[i] = <<":name">>})]
UpperFirst(l) == [i \in 1..Len(l) |-> IF i = 1 THEN ToUpperCase(l[i]) ELSE l[i]]
\* The name the first accepting template of the list gives, "" if none accepts
ExpectedAuto(domain) ==
  LET hits == {i \in 1..Len(autoPatterns) : TemplateAccepts(autoPatterns[i].template, domain)}
  IN IF hits = {} THEN << >>
     ELSE UpperFirst(NameLabel(autoPatterns[Min(hits)].template, domain))

\* C1: whenever a manual pattern matches the tab's domain, handleTabUpdate on a
\* URL-cache miss and the loop of groupAllExistingTabs request the group of a
\* matching manual pattern, never an auto-pattern name or a domain-cache entry.
C1_ManualPrecedesAuto ==
  \A o \in Calls :
    (IsMiss(o) \/ IsBulk(o)) /\ ManualHits(Hostname(o.url)) # {}
    => /\ o.path = "manual"
       /\ o.req
       /\ \E i \in ManualHits(Hostname(o.url)) :
            o.name = domainPatterns[i].groupName /\ o.color = domainPatterns[i].color

\* C1 witness: the bulk path takes a manual pattern's group for a domain that an
\* enabled auto-pattern names differently and that the domain cache holds.
C1_Witness ==
  \E o \in Calls :
    /\ IsBulk(o) /\ o.path = "manual"
    /\ enableAutoPatterns
    /\ matchAutoPattern(Hostname(o.url)) \notin {<< >>, o.name}
    /\ MapHas(autoPatternCache, Hostname(o.url))

\* C2: when several manual patterns match, the name and color requested are
\* those of the matching pattern at the lowest position of the list, the one
\* added first.
C2_FirstAddedWins ==
  \A o \in Calls :
    (IsMiss(o) \/ IsBulk(o)) /\ o.path = "manual"
    => /\ ManualHits(Hostname(o.url)) # {}
       /\ o.name = domainPatterns[Min(ManualHits(Hostname(o.url)))].groupName
       /\ o.color = domainPatterns[Min(ManualHits(Hostname(o.url)))].color

\* C2 witness: two patterns with different groups match the domain of a request.
C2_Witness ==
  \E o \in Calls :
    /\ IsMiss(o) /\ o.path = "manual"
    /\ \E i, j \in ManualHits(Hostname(o.url)) :
         i < j /\ domainPatterns[i].groupName # domainPatterns[j].groupName

\* C3: with no manual match and auto-patterns enabled, handleTabUpdate
\* classifies a domain to the label under the placeholder of the first template
\* in list order that accepts the domain, its first character upper-cased and
\* the others unchanged, and to no-match when no template accepts it.
C3_FirstTemplateNames ==
  \A o \in Calls :
    IsMiss(o) /\ ManualHits(Hostname(o.url)) = {} /\ enableAutoPatterns
    => /\ o.name = ExpectedAuto(Hostname(o.url))
       /\ o.req = (o.name # << >>)
       /\ o.path = IF o.name = << >> THEN "nomatch" ELSE "auto"

\* C3 witness: two templates accept the domain and name it differently, and the
\* label taken has a second character that stays in lower case.
C3_Witness ==
  \E o \in Calls :
    /\ IsMiss(o) /\ o.path = "auto" /\ Len(o.name) = 2 /\ o.name[2] = "b"
    /\ \E i, j \in 1..Len(autoPatterns) :
         /\ i < j
         /\ TemplateAccepts(autoPatterns[i].template, Hostname(o.url))
         /\ TemplateAccepts(autoPatterns[j].template, Hostname(o.url))
         /\ NameLabel(autoPatterns[i].template, Hostname(o.url))
              # NameLabel(autoPatterns[j].template, Hostname(o.url))

\* C4: a compiled template matches a domain only as a whole: the domain has as
\* many dot-separated labels as the template has segments, a wildcard or the
\* placeholder stands for one or more dot-free characters of its label, and a
\* literal segment equals its label (literals being host-name characters).
C4_WholeDomainMatch ==
  mOut.done /\ ~mOut.threw
  => /\ mOut.ok = TemplateAccepts(mTpl, mDom)
     /\ mOut.ok => Len(Labels(mTpl)) = Len(Labels(mDom))

\* C4 witness: ":name.*.a" has been matched against "b.a", which lacks the
\* label for the wildcard, and did not match.
C4_Witness ==
  /\ mOut.done /\ ~mOut.ok
  /\ mTpl = <<":name", ".", "*", ".", "a">>
  /\ mDom = <<"b", ".", "a">>
\* A run of handleTabUpdate that found the tab's URL in processedUrls
IsHit(o) == o.by = "handleTabUpdate" /\ o.path = "hit"
\* A load of the configuration from storage is under way
LoadPending == \E k \in BagToSet(tasks) : k.pc \in {"refreshPatterns", "storageGet"}

\* C5 as stated: a second handleTabUpdate on the tab whose earlier run cached
\* the URL, with no configuration change since, issues no assignment request.
C5_SecondCallRequestsNothing ==
  \A o \in Calls :
    IsHit(o) /\ o.prov.tab = o.tab /\ ~o.prov.stale /\ ~o.prov.pre => ~o.req

\* C5 amended: a handleTabUpdate for a tab that is in a group is skipped
\* without a request. A handleTabUpdate for an ungrouped tab whose URL is in
\* processedUrls when it is called takes the cache hit: it matches no pattern
\* and requests the cached group, without a color, exactly when the cached
\* name is not empty, so that two calls can issue two requests. A call that
\* classifies by the patterns is one that did not find the URL in the cache:
\* the manual path writes the entry only after its request has returned.
C5_CachedUrlIsHit ==
  [][\A o \in Range(ev'.calls) :
       o.by = "handleTabUpdate"
       => /\ o.groupId # TAB_GROUP_ID_NONE => o.path = "grouped" /\ ~o.req
          /\ /\ o.groupId = TAB_GROUP_ID_NONE /\ o.tab # 0 /\ ~IsInternalUrl(o.url)
             /\ MapHas(processedUrls, o.url)
             => o.path = "hit" /\ o.name = processedUrls[o.url]
          /\ o.path = "hit"
             => /\ o.groupId = TAB_GROUP_ID_NONE
                /\ MapHas(processedUrls', o.url) /\ o.name = processedUrls'[o.url]
                /\ o.req = (o.name # << >>) /\ o.color = Undefined
                /\ o.req => \E k \in BagToSet(tasks') :
                              /\ k.kind = "htu" /\ k.pc = "window" /\ k.tab = o.tab
                              /\ k.name = o.name /\ k.color = Undefined
          /\ o.path \in {"manual", "auto", "nomatch"} => ~MapHas(processedUrls, o.url)
    ]_vars

\* C5 witness: the tab whose run cached the URL is handled again, still
\* ungrouped and under the same configuration, and a second request is issued.
C5_Witness ==
  \E o \in Calls :
    IsHit(o) /\ o.prov.tab = o.tab /\ ~o.prov.stale /\ ~o.prov.pre /\ o.req

\* C6: a step of addPattern, addAutoPattern, removeAutoPattern or
\* setAutoPatterns that changed the configuration leaves both processedUrls
\* and autoPatternCache empty.
C6_MutationEmptiesBothCaches ==
  [][ /\ ev'.op \in {"addPattern", "addAutoPattern", "removeAutoPattern", "setAutoPatterns"}
      /\ configVars' # configVars
      => processedUrls' = EmptyMap /\ autoPatternCache' = EmptyMap ]_vars

\* C7: once a manual pattern is gone from the list (removed in the popup and
\* the list reloaded), no handleTabUpdate serves from the URL cache a group name
\* that came from that pattern.
C7_RemovedPatternNotServed ==
  \A o \in Calls :
    IsHit(o) /\ o.prov.src = "manual" /\ ~LoadPending
    => o.prov.pat \in Range(domainPatterns)

\* C8: no entry of the URL cache was written by a handleTabUpdate that
\* classified its tab before a clearing of the cache and resumed after it.
C8_NoWriteAcrossInvalidation ==
  \A u \in DOMAIN prov : ~prov[u].pre

\* C9: processedUrls holds "" exactly for the URLs classified to no-match, an
\* entry that has() finds; a hit on such an entry requests nothing, and a hit
\* on an entry of a matched URL always requests its group.
C9_NoMatchCachedExplicitly ==
  /\ DOMAIN prov = DOMAIN processedUrls
  /\ \A u \in DOMAIN processedUrls : (processedUrls[u] = << >>) = (prov[u].src = "nomatch")
  /\ \A o \in Calls :
       /\ o.by = "handleTabUpdate" /\ o.path = "nomatch"
          => MapHas(processedUrls, o.url) /\ processedUrls[o.url] = << >>
       /\ IsHit(o) /\ o.prov.src = "nomatch" => ~o.req /\ o.name = << >>
       /\ IsHit(o) /\ o.prov.src # "nomatch" => o.req /\ o.name # << >>

\* C9 witness: a handleTabUpdate hits the entry of an unmatched URL.
C9_Witness ==
  \E o \in Calls : IsHit(o) /\ o.prov.src = "nomatch" /\ processedUrls[o.url] = << >>

\* C10: the request of a cache hit carries the color that the request of the
\* cache miss which populated the entry carried.
C10_HitRequestsSameColor ==
  \A o \in Calls : IsHit(o) /\ o.req => o.color = o.prov.color
\* C11: no run of any path issues an assignment request for a tab that is
\* already in a group.
C11_GroupedTabNeverRequested ==
  \A o \in Calls : o.groupId # TAB_GROUP_ID_NONE => ~o.req
\* C12: a tab on a browser page (chrome://, brave://), or without URL or id, is
\* never classified and never requested a group for, on any path.
C12_InternalTabNeverClassified ==
  \A o \in Calls :
    IsInternalUrl(o.url) \/ o.tab = 0
    => ~o.req /\ o.path \in {"grouped", "nourl", "internal"}

\* A run that processed its tab: it is not one of the skips (tab in a group,
\* no URL or id, browser page, unparsable URL)
IsProcessed(o) ==
  /\ o.by \in {"handleTabUpdate", "groupAllExistingTabs"}
  /\ o.path \in {"hit", "manual", "dcache", "auto", "nomatch"}
\* The tab of a processed run classifies to a group: through the URL-cache
\* entry on a hit, else through a manual pattern, the domain cache of the bulk
\* path, or an enabled auto-pattern
ClassifiesToGroup(o) ==
  IF o.path = "hit"
  THEN MapHas(processedUrls, o.url) /\ processedUrls[o.url] # << >>
  ELSE \/ ManualHits(Hostname(o.url)) # {}
       \/ /\ enableAutoPatterns
          /\ \/ ExpectedAuto(Hostname(o.url)) # << >>
             \/ /\ o.by = "groupAllExistingTabs"
                /\ MapHas(autoPatternCache, Hostname(o.url))
                /\ autoPatternCache[Hostname(o.url)] # << >>

\* C13: a run of handleTabUpdate or of the loop of groupAllExistingTabs calls
\* addTabToGroup once for a tab that classifies to a group (the call is
\* pending with the tab, name and color of the run, and no other run of the
\* step requests for the same tab) and not at all for a tab with no match.
C13_OneRequestPerMatch ==
  \A i \in DOMAIN ev.calls :
    LET o == ev.calls[i]
    IN IsProcessed(o)
       => /\ o.req <=> ClassifiesToGroup(o)
          /\ o.req => /\ o.name # << >>
                      /\ \E k \in BagToSet(tasks) : /\ k.pc = "window" /\ k.tab = o.tab
                                          /\ k.name = o.name /\ k.color = o.color
                      /\ \A j \in DOMAIN ev.calls :
                           j # i /\ ev.calls[j].tab = o.tab => ~ev.calls[j].req

\* C13 witness: in one step a run finds no match for its tab and requests
\* nothing, and another run requests the group its tab classifies to.
C13_Witness ==
  \E i, j \in DOMAIN ev.calls :
    /\ IsProcessed(ev.calls[i]) /\ ev.calls[i].path = "nomatch" /\ ~ev.calls[i].req
    /\ IsProcessed(ev.calls[j]) /\ ev.calls[j].req /\ ClassifiesToGroup(ev.calls[j])
    /\ \E k \in BagToSet(tasks) : k.pc = "window" /\ k.tab = ev.calls[j].tab
                        /\ k.name = ev.calls[j].name

\* C14: a step of a pass over the existing tabs starts at most one call of
\* addTabToGroup: the call for the next tab of the pass starts in a later step,
\* after the call for the tab before it has returned.
C14_PassIsSequential ==
  \A i, j \in DOMAIN ev.calls : i < j /\ ev.calls[i].req => ~ev.calls[j].req

\* C15: the window never holds two groups with the same name: an assignment
\* for a name that has a group puts the tab in that group.
C15_OneGroupPerName ==
  \A g, h \in DOMAIN groups :
    groups[g].title # << >> /\ groups[g].title = groups[h].title => g = h

\* C16: an 'addAutoPattern' step whose template has no :name placeholder
\* responds success false and leaves the template list, the enabled flag, both
\* caches, the stored configuration and the pending work as they were.
C16_TemplateWithoutNameRejected ==
  [][ ev'.op = "addAutoPattern" /\ ~Includes(ev'.arg, ":name")
      => /\ ev'.resp = Resp(FALSE, 0)
         /\ UNCHANGED <<autoPatterns, enableAutoPatterns, processedUrls, autoPatternCache,
                        storage, tasks>> ]_vars

\* C16 witness: the rejected template arrived when the configuration had been
\* stored and both caches held entries.
C16_Witness ==
  /\ ev.op = "addAutoPattern" /\ ~Includes(ev.arg, ":name")
  /\ ev.resp = Resp(FALSE, 0)
  /\ storage.autoPatterns.has
  /\ processedUrls # EmptyMap /\ autoPatternCache # EmptyMap

\* C17: an 'addPattern' step whose pattern does not compile does not respond
\* with success and leaves the manual patterns, both caches and the stored
\* configuration as they were.
C17_InvalidRegexRejected ==
  [][ ev'.op = "addPattern" /\ RegExpThrows(ev'.arg)
      => /\ ~ev'.resp.success
         /\ UNCHANGED <<domainPatterns, processedUrls, autoPatternCache, storage>> ]_vars

\* The passes over the existing tabs that parse each tab's URL themselves
PassNames ==
  {"groupAllExistingTabs", "applyAutoPatternToExistingTabs", "applyAutoPatternsToTabs"}
\* The step in which a pass received the tab list and ran its loop
IsPassStart == ev.op \in {"groupAll", "applyAuto", "applyAutoTabs"}

\* C18: in the step in which a pass runs over the tab list, a tab whose URL
\* does not parse is followed by the runs for the tabs after it (every open tab
\* with a higher id that the pass takes), up to the pass's next await.
C18_UnparsableUrlSkipped ==
  \A i \in DOMAIN ev.calls :
    LET o == ev.calls[i]
    IN IsPassStart /\ o.by \in PassNames /\ o.path = "error"
       => \/ \E j \in DOMAIN ev.calls : j > i /\ ev.calls[j].req
          \/ \A t \in Tabs :
               /\ t > o.tab /\ tabs[t].open
               /\ (o.by = "groupAllExistingTabs" => IsUngroupedCandidate(Snapshot(t)))
               => \E j \in DOMAIN ev.calls : j > i /\ ev.calls[j].tab = t

\* C19: when a browser call of addTabToGroup rejects, the caller of the failed
\* call goes on in the same step: a pass runs its loop for the next tab of its
\* list, handleTabUpdate on the manual path writes its URL-cache entry, a
\* groupAllExistingTabs that requests for no further tab ends through the
\* listener's .then (which responds with success, or sends nothing when
\* chrome.runtime.lastError is set), and no response reports a failure.
C19_AssignmentFailureCaught ==
  [][ \A k \in BagToSet(tasks) :
        ev'.op = "addTabToGroupFailed" /\ CopiesIn(k, tasks') < CopiesIn(k, tasks)
        => /\ k.kind # "htu" /\ k.rest # << >>
              => Len(ev'.calls) > 0 /\ ev'.calls[1].tab = Head(k.rest).id
           /\ k.kind = "htu" /\ k.then = "setCache"
              => MapHas(processedUrls', k.url) /\ processedUrls'[k.url] = k.name
           /\ k.kind = "groupAll" /\ (\A i \in DOMAIN ev'.calls : ~ev'.calls[i].req)
              => /\ ev'.resp.to = k.msg
                 /\ ev'.resp.lastError \/ (ev'.resp.sent /\ ev'.resp.success)
           /\ ~(ev'.resp.sent /\ ~ev'.resp.success) ]_vars

\* C19 witness: after the rejection for one tab, the pass has classified the
\* next tab of its list and requested its group.
C19_Witness ==
  /\ ev.op = "addTabToGroupFailed"
  /\ Len(ev.calls) > 0
  /\ ev.calls[1].by \in PassNames /\ ev.calls[1].req
  /\ \E k \in BagToSet(tasks) : k.pc = "window" /\ k.tab = ev.calls[1].tab
  /\ \E t \in Tabs : t < ev.calls[1].tab /\ tabs[t].open
                      /\ tabs[t].groupId = TAB_GROUP_ID_NONE

\* The stored auto-pattern list holds an entry whose regexStr does not compile
StoredAutoDamaged ==
  /\ storage.autoPatterns.has
  /\ \E i \in 1..Len(storage.autoPatterns.val) :
       RegExpThrows(storage.autoPatterns.val[i].regexStr)

\* C20: a load that read a stored auto-pattern list with an entry that does
\* not compile leaves the engine with exactly one auto-pattern, the compiled
\* default template ":name.*".
C20_DamagedAutoPatternFallsBack ==
  ev.op = "loadPatternsFromStorage" /\ StoredAutoDamaged
  => /\ Len(autoPatterns) = 1
     /\ autoPatterns[1].template = DefaultTemplate
     /\ autoPatterns[1] = createAutoPattern(DefaultTemplate)

\* C20 witness: the stored list had an entry that compiles, of another
\* template, before the damaged one, and the load ended with the default alone.
C20_Witness ==
  /\ ev.op = "loadPatternsFromStorage" /\ StoredAutoDamaged
  /\ Len(storage.autoPatterns.val) > 1
  /\ ~RegExpThrows(storage.autoPatterns.val[1].regexStr)
  /\ storage.autoPatterns.val[1].template # DefaultTemplate
  /\ TemplatesOf(autoPatterns) = {DefaultTemplate}

\* C21: after a load, what the engine holds is what the storage it read
\* serializes: the auto-patterns (templates, order, compiled regex, capture
\* position), the manual patterns and the enabled flag, for every stored
\* configuration that saveSettings and savePatterns wrote, the empty template
\* list included.
C21_SaveLoadRoundTrip ==
  ev.op = "loadPatternsFromStorage" /\ ~StoredAutoDamaged
  => /\ storage.autoPatterns.has => SerializeAuto(autoPatterns) = storage.autoPatterns.val
     /\ storage.domainPatterns.has
        => SerializeManual(domainPatterns) = storage.domainPatterns.val
     /\ storage.enableAutoPatterns.has => enableAutoPatterns = storage.enableAutoPatterns.val

\* C22: while auto-patterns are disabled, every request of a run carries the
\* group of a manual pattern: it comes from the manual branch, or from a
\* URL-cache entry that the manual branch wrote.
C22_DisabledRequestsManualOnly ==
  ~enableAutoPatterns
  => \A o \in Calls :
       o.req => \/ o.path = "manual"
                \/ o.path = "hit" /\ o.prov.src = "manual"

\* C23: TabGroupManager.removeAutoPattern(t) leaves the templates other than t
\* in their order and none equal to t, and returns true if the list held t;
\* otherwise it returns false and the template list, both caches and the
\* stored configuration are as they were.
C23_RemoveByTemplateString ==
  [][ ev'.op = "removeAutoPattern"
      => /\ autoPatterns' = SelectSeq(autoPatterns, LAMBDA p : p.template # ev'.arg)
         /\ ev'.ret = (ev'.arg \in TemplatesOf(autoPatterns))
         /\ ev'.arg \notin TemplatesOf(autoPatterns)
            => UNCHANGED <<autoPatterns, processedUrls, autoPatternCache, storage>> ]_vars

\* C23 witness: a template was removed from between or beside others that
\* stayed, the method returned true and the stored list is the list kept.
C23_Witness ==
  /\ ev.op = "removeAutoPattern" /\ ev.ret
  /\ ev.arg \notin TemplatesOf(autoPatterns)
  /\ Len(autoPatterns) > 0
  /\ storage.autoPatterns.has /\ storage.autoPatterns.val = SerializeAuto(autoPatterns)

\* C23 second case reached: removing a template the list does not hold
\* returned false with caches that held entries.
C23_WitnessAbsent ==
  /\ ev.op = "removeAutoPattern" /\ ~ev.ret
  /\ processedUrls # EmptyMap /\ autoPatternCache # EmptyMap

\* The number of :name placeholders of a template
Placeholders(template) == Cardinality({i \in 1..Len(template) : template[i] = ":name"})

\* C24: a template with more than one :name placeholder is never in the
\* template list, and an 'addAutoPattern' that carries one does not respond
\* with success.
C24_SeveralPlaceholdersRejected ==
  /\ \A i \in 1..Len(autoPatterns) : Placeholders(autoPatterns[i].template) <= 1
  /\ ev.op = "addAutoPattern" /\ Placeholders(ev.arg) > 1 => ~ev.resp.success

\* The group name the one run described by a result requests, "" if none
RequestedName(r) ==
  IF \E i \in DOMAIN r.outs : r.outs[i].req
  THEN r.outs[Min({i \in DOMAIN r.outs : r.outs[i].req})].name
  ELSE << >>
\* The tabs both paths take: open, in no group, with a URL that parses and is
\* not a browser page
Groupable == {t \in Tabs : /\ tabs[t].open /\ tabs[t].groupId = TAB_GROUP_ID_NONE
                           /\ UrlParses(tabs[t].url) /\ ~IsInternalUrl(tabs[t].url)}

\* C25: in every reachable state and for every tab both paths take,
\* handleTabUpdate and the loop of groupAllExistingTabs, run on the tab in that
\* state, request the same group name or both none.
C25_BulkAgreesWithPerTab ==
  \A t \in Groupable :
    RequestedName(handleTabUpdate(Snapshot(t), Caches))
      = RequestedName(groupAllLoop(<<Snapshot(t)>>, Caches, << >>, 0))

\* The messages the listener answers before it returns
AnsweredAtOnce ==
  {"addPattern", "addAutoPattern", "addAutoPattern(not a string)", "removeAutoPattern",
   "setAutoPatterns", "refreshPatterns", "unknownAction"}
\* A pass is under way that has the response to message m still to send
Owed(ts, m) == \E k \in BagToSet(ts) : k.msg = m

\* C26: every message gets one response. A message answered at once gets it in
\* the step that handles it. A 'groupExistingTabs' message gets none in that
\* step and leaves one pass that owes it; the response to a message is sent in
\* exactly the step in which the pass that owed it ends, so it is sent once and
\* is never dropped.
C26_OneResponsePerMessage ==
  [][ /\ ev'.op \in AnsweredAtOnce => ev'.resp.sent /\ ev'.resp.to = 0
      /\ ev'.op = "groupExistingTabs"
         => ~ev'.resp.sent /\ Owed(tasks', nCmd') /\ ~Owed(tasks, nCmd')
      /\ \A m \in 1..MaxCommands :
           /\ CopiesIn(m, ImageBag(tasks', [k \in BagToSet(tasks') |-> k.msg])) <= 1
           /\ (Owed(tasks, m) /\ ~Owed(tasks', m)) <=> (ev'.resp.sent /\ ev'.resp.to = m)
    ]_vars

\* C27: every entry of the domain cache is what matchAutoPattern gives for its
\* domain under the auto-patterns now in force.
C27_DomainCacheIsCurrent ==
  \A d \in DOMAIN autoPatternCache : autoPatternCache[d] = matchAutoPattern(d)

\* The stored manual patterns that match a domain, by position
StoredManualHits(domain) ==
  IF storage.domainPatterns.has
  THEN {i \in 1..Len(storage.domainPatterns.val) :
          ~RegExpThrows(storage.domainPatterns.val[i].patternStr)
          /\ RegExpTest(NewRegExp(storage.domainPatterns.val[i].patternStr), domain)}
  ELSE {}

\* C28: while a load of the configuration is pending, no run classifies a tab
\* by an auto-pattern when a stored manual pattern matches the tab's domain:
\* the tab is classified by the configuration being replaced or by the stored
\* one, never by the defaults the load has put in between.
C28_LoadIsAtomic ==
  \A o \in Calls :
    LoadPending /\ o.req /\ o.path = "auto" => StoredManualHits(Hostname(o.url)) = {}

\* C29: no two entries of the auto-pattern list have the same template.
C29_TemplatesAreDistinct ==
  \A i, j \in 1..Len(autoPatterns) :
    autoPatterns[i].template = autoPatterns[j].template => i = j

\* C29 witness: addAutoPattern was called with a template the list holds,
\* returned false, and the list holds the template once, beside another.
C29_Witness ==
  /\ ev.op = "addAutoPattern" /\ ~ev.ret /\ Includes(ev.arg, ":name")
  /\ Len(autoPatterns) > 1
  /\ Cardinality({i \in 1..Len(autoPatterns) : autoPatterns[i].template = ev.arg}) = 1

\* The segment of a template that holds its first :name placeholder
FirstNameSegment(template) ==
  Min({i \in 1..Len(Labels(template)) : Includes(Labels(template)[i], ":name")})
\* The non-empty stretches of a label
Stretches(lab) == {SubSeq(lab, i, j) : i \in 1..Len(lab), j \in 1..Len(lab)} \ {<< >>}

\* C30: a template with several :name placeholders that matches a domain names
\* the group after what its first placeholder matched: the capitalized label
\* under the first placeholder when that placeholder is a whole segment, and
\* in any case a stretch of the label of the segment that holds it, whatever
\* the later placeholders matched.
C30_FirstPlaceholderNames ==
  mOut.done /\ ~mOut.threw /\ mOut.ok /\ Placeholders(mTpl) > 1
  => LET lab == Labels(mDom)[FirstNameSegment(mTpl)]
     IN /\ \E x \in Stretches(lab) : mOut.name = UpperFirst(x)
        /\ Labels(mTpl)[FirstNameSegment(mTpl)] = <<":name">> => mOut.name = UpperFirst(lab)

\* C30 witness: ":name.:name" matched "a.b" and named the group "A".
C30_Witness ==
  /\ mOut.done /\ mOut.ok
  /\ mTpl = <<":name", ".", ":name">>
  /\ mDom = <<"a", ".", "b">>
  /\ mOut.name = <<"A">>

\* The steps in which only calls of handleTabUpdate run
HtuSteps == {"onCreated", "onUpdated", "tabsGetDone", "applyPatterns"}
\* The step in which the awaited addTabToGroup of k returned and its caller ended
Completes(k, ts, ts2, e2) ==
  /\ BagIn(k, ts) /\ k.kind = "htu"
  /\ e2.op \in {"addTabToGroup", "addTabToGroupFailed"}
  /\ ts2 = Without(ts, {k})

\* C31 as stated: when a call of handleTabUpdate that missed the URL cache and
\* matched a pattern ends, the URL cache holds an entry for its URL.
C31_CachedOnCompletion ==
  [][\A k \in BagToSet(tasks) :
       Completes(k, tasks, tasks', ev') /\ k.then \in {"setCache", "returnAuto"}
       => MapHas(processedUrls', k.url)]_vars

\* C31, amended: a call of handleTabUpdate that misses the URL cache writes
\* the URL cache under its URL (the group name, or "" for no match), at once
\* for an auto-pattern match or no match and after the awaited addTabToGroup
\* for a manual match; it writes the domain cache under the URL's domain for
\* an auto-pattern match, and in no other case. (A configuration command
\* that runs while the call awaits addTabToGroup may clear what it wrote.)
C31_MissWritesCaches ==
  [][/\ \A o \in Range(ev'.calls) :
          o.by = "handleTabUpdate" =>
            /\ o.path = "auto" =>
                 /\ MapHas(processedUrls', o.url) /\ processedUrls'[o.url] = o.name
                 /\ MapHas(autoPatternCache', Hostname(o.url))
                 /\ autoPatternCache'[Hostname(o.url)] = o.name
            /\ o.path = "nomatch" =>
                 MapHas(processedUrls', o.url) /\ processedUrls'[o.url] = << >>
     /\ ev'.op \in HtuSteps =>
          /\ DOMAIN autoPatternCache \subseteq DOMAIN autoPatternCache'
          /\ \A d \in DOMAIN autoPatternCache' :
               (d \notin DOMAIN autoPatternCache \/ autoPatternCache[d] # autoPatternCache'[d])
               => \E o \in Range(ev'.calls) : o.path = "auto" /\ Hostname(o.url) = d
     /\ \A k \in BagToSet(tasks) :
          Completes(k, tasks, tasks', ev') /\ k.then = "setCache"
          => /\ MapHas(processedUrls', k.url) /\ processedUrls'[k.url] = k.name
             /\ autoPatternCache' = autoPatternCache
    ]_vars

\* C31 witness: a call of handleTabUpdate has just matched an auto-pattern on
\* a URL-cache miss, and both caches hold the name.
C31_Witness ==
  /\ ev.op \in HtuSteps
  /\ \E o \in Calls :
       /\ IsMiss(o) /\ o.path = "auto"
       /\ MapHas(processedUrls, o.url) /\ processedUrls[o.url] = o.name
       /\ MapHas(autoPatternCache, Hostname(o.url))

\* C31 witness, manual match: addTabToGroup returned, the URL cache holds the
\* manual group name and the domain cache holds nothing.
C31_WitnessManual ==
  /\ ev.op = "addTabToGroup"
  /\ \E u \in DOMAIN processedUrls : MapHas(prov, u) /\ prov[u].src = "manual"
  /\ autoPatternCache = EmptyMap

\* The tabs whose URL a step changed
UrlChanged(ts, ts2) == {t \in Tabs : ts[t].open /\ ts2[t].open /\ ts[t].url # ts2[t].url}

\* C32: a URL change on a tab that is not the active tab classifies nothing,
\* requests no group assignment, leaves both caches as they were and leaves no
\* work pending; whatever handleTabUpdate does for a tab on a URL change, it
\* does for the active tab.
C32_BackgroundUrlChangeIgnored ==
  [][ev'.op = "onUpdated" =>
       /\ \A o \in Range(ev'.calls) : o.tab = activeTab
       /\ \A t \in UrlChanged(tabs, tabs') :
            t # activeTab =>
              /\ ev'.calls = << >>
              /\ tasks' = tasks
              /\ processedUrls' = processedUrls
              /\ autoPatternCache' = autoPatternCache]_vars

\* C32 witness: the URL of the one background tab changed to a URL that the
\* enabled auto-patterns match and the URL cache does not hold; the tab is
\* ungrouped, and the step made no call of handleTabUpdate.
C32_Witness ==
  /\ ev.op = "onUpdated" /\ ev.calls = << >>
  /\ \A t \in Tabs : tabs[t].open /\ tabs[t].groupId = TAB_GROUP_ID_NONE
  /\ \E t \in Tabs \ {activeTab} :
       /\ ~MapHas(processedUrls, tabs[t].url)
       /\ enableAutoPatterns /\ matchAutoPattern(Hostname(tabs[t].url)) # << >>

\* The stored manual pattern list holds an entry whose patternStr does not compile
StoredManualDamaged ==
  /\ storage.domainPatterns.has
  /\ \E i \in 1..Len(storage.domainPatterns.val) :
       RegExpThrows(storage.domainPatterns.val[i].patternStr)

\* C33: once the callback of a load has run on a stored configuration with a
\* manual pattern that does not compile, the engine holds the stored enabled
\* flag and the stored auto-pattern templates.
C33_DamagedManualLoadCompletes ==
  ev.op \in {"loadPatternsFromStorage", "loadPatternsFromStorageThrew"} /\ StoredManualDamaged
  => /\ storage.enableAutoPatterns.has => enableAutoPatterns = storage.enableAutoPatterns.val
     /\ storage.autoPatterns.has /\ Len(storage.autoPatterns.val) > 0 /\ ~StoredAutoDamaged
        => SerializeAuto(autoPatterns) = storage.autoPatterns.val

\* The pass of message m is under way
PassPending(m) == \E k \in BagToSet(tasks) : k.kind = "groupAll" /\ k.msg = m

\* C34: the pass of every 'groupExistingTabs' message ends with its response:
\* the step in which the pass of message m finishes sends the response to m
\* (success and the count), whatever parse failures, assignment failures or
\* configuration commands came during the pass.
C34_EndedPassAnswered ==
  [][\A m \in 1..MaxCommands :
       PassPending(m) /\ ~PassPending(m)'
         => ev'.resp.to = m /\ ev'.resp.sent /\ ev'.resp.success]_vars

\* The part of C34 that holds: when the browser answers every call a pass
\* awaits, the pass of every 'groupExistingTabs' message ends.
C34_PassEnds ==
  \A m \in 1..MaxCommands : PassPending(m) ~> ~PassPending(m)

\* The state C34 fails in: chrome.windows.getCurrent failed for the last tab
\* of a pass, chrome.runtime.lastError was set when the listener's .then ran,
\* and the pass ended without a response to its message.
C34_EndedUnanswered ==
  /\ ev.op = "addTabToGroupFailed"
  /\ ev.resp.lastError /\ ~ev.resp.sent /\ ev.resp.to > 0
  /\ ~PassPending(ev.resp.to)

\* C35: the log buffer never holds more than maxLogs entries and is ordered
\* newest first, and a call of log on a full buffer puts the new entry first
\* and drops exactly the last, oldest, entry.
C35_LogBufferBounded ==
  [][/\ Len(logs') <= maxLogs
     /\ \A i \in 1..Len(logs') : \A j \in 1..Len(logs') : i < j => logs'[i] > logs'[j]
     /\ nLog' # nLog /\ Len(logs) = maxLogs
        => logs' = <<nLog'>> \o SubSeq(logs, 1, maxLogs - 1)]_vars

\* C35 witness: the buffer is full, its newest entry is of the last call, and
\* an entry written after the last clearLogs has been dropped.
C35_Witness ==
  /\ Len(logs) = maxLogs
  /\ logs[1] = nLog
  /\ logs[maxLogs] = 3
  /\ nLog = maxLogs + 2
====
